---------------------------- MODULE Spec2Model ----------------------------
(***************************************************************************)
(* Lore Context Retrieval Engine of Ponchik_bot                            *)
(* (src/services/lore_search.py, src/services/lore_loader.py).             *)
(*                                                                         *)
(* A Python str is a sequence of Unicode code points (naturals); a dict is *)
(* a sequence of <<key, value>> pairs in insertion order with unique keys; *)
(* a list is a sequence.  A state is the Lore Store held by the engine     *)
(* together with the call in progress, if any, and what it returns; calls  *)
(* holds the local variables of the calls of retrieve_context that several *)
(* callers have in progress on the one engine at the same time.            *)
(*                                                                         *)
(* The chat application around the engine (src/services/groq_client.py,    *)
(* src/handlers): ai is the call of get_ai_response in progress, chat the  *)
(* private chat of one user with the bot as echo_logic sees it, admin the  *)
(* command handlers and what they sent.  An Optional value is a sequence   *)
(* of at most one element, <<>> being None.                                *)
(***************************************************************************)
EXTENDS Integers, Sequences, FiniteSets, TLC

VARIABLES lore, query_history, op, input, output, calls, ai, chat, admin

vars == <<lore, query_history, op, input, output, calls, ai, chat, admin>>

(***************************************************************************)
(* str.isspace(), str.isalnum(), str.lower() of one character, on the code *)
(* points of Basic Latin, U+0130, U+0307 and the Russian alphabet.         *)
(* lower() of U+0130 is the two code points U+0069 U+0307.                 *)
(***************************************************************************)
isspace(c) == c \in {9, 10, 11, 12, 13, 28, 29, 30, 31, 32, 133, 160}

isalnum(c) ==
    \/ c \in 48..57
    \/ c \in 65..90
    \/ c \in 97..122
    \/ c = 304
    \/ c \in 1040..1103
    \/ c \in {1025, 1105}

lower_char(c) ==
    IF c \in 65..90 THEN <<c + 32>>
    ELSE IF c \in 1040..1071 THEN <<c + 32>>
    ELSE IF c = 1025 THEN <<1105>>
    ELSE IF c = 304 THEN <<105, 775>>
    ELSE <<c>>

\* str.lower(): the lowered characters in order (computed by halves).
RECURSIVE lower(_)
lower(s) ==
    IF s = <<>> THEN <<>>
    ELSE IF Len(s) = 1 THEN lower_char(s[1])
    ELSE LET h == Len(s) \div 2
         IN  lower(SubSeq(s, 1, h)) \o lower(SubSeq(s, h + 1, Len(s)))

(***************************************************************************)
(* Generic helpers on sequences.                                           *)
(***************************************************************************)
Min(a, b) == IF a <= b THEN a ELSE b
Max(a, b) == IF a >= b THEN a ELSE b

InSeq(x, s) == \E i \in 1..Len(s) : s[i] = x

\* Python "needle in haystack" on two strings.
IsSubstring(needle, hay) ==
    \E k \in 0..(Len(hay) - Len(needle)) :
        \A i \in 1..Len(needle) : hay[k + i] = needle[i]

\* All sequences over S of length 0..n.
RECURSIVE SeqsUpTo(_, _)
SeqsUpTo(S, n) ==
    IF n = 0 THEN {<<>>}
    ELSE LET shorter == SeqsUpTo(S, n - 1)
         IN  shorter \cup {Append(s, x) : s \in {t \in shorter : Len(t) = n - 1}, x \in S}

\* str.split() with no argument: the maximal runs of non-whitespace.
word_starts(s) ==
    {i \in 1..Len(s) : ~isspace(s[i]) /\ (i = 1 \/ isspace(s[i - 1]))}

word_end(s, i) ==
    CHOOSE j \in i..Len(s) :
        /\ \A k \in i..j : ~isspace(s[k])
        /\ j = Len(s) \/ isspace(s[j + 1])

split(s) ==
    LET starts == word_starts(s)
        nth(k) == CHOOSE i \in starts : Cardinality({j \in starts : j < i}) = k - 1
    IN  [k \in 1..Cardinality(starts) |-> SubSeq(s, nth(k), word_end(s, nth(k)))]

\* len(s.split())
word_count(s) == Cardinality(word_starts(s))

\* ' '.join(words)
RECURSIVE join_space(_)
join_space(ws) ==
    IF ws = <<>> THEN <<>>
    ELSE IF Len(ws) = 1 THEN ws[1]
    ELSE ws[1] \o <<32>> \o join_space(Tail(ws))

(***************************************************************************)
(* lore_loader.py                                                          *)
(***************************************************************************)
STOP_WORDS ==
    { <<1072>>, <<1074>>, <<1080>>, <<1082>>, <<1085, 1072>>, <<1086>>,
      <<1086, 1073>>, <<1086, 1090>>, <<1087, 1086>>, <<1087, 1086, 1076>>,
      <<1087, 1088, 1080>>, <<1089>>, <<1089, 1086>>, <<1091>>,
      <<1078, 1077>>, <<1083, 1080>>, <<1073, 1099>> }

\* One character of the generator expression of line 44.
clean_char(c) == IF isalnum(c) \/ isspace(c) THEN lower_char(c) ELSE <<32>>

RECURSIVE clean_text(_)
clean_text(s) ==
    IF s = <<>> THEN <<>>
    ELSE IF Len(s) = 1 THEN clean_char(s[1])
    ELSE LET h == Len(s) \div 2
         IN  clean_text(SubSeq(s, 1, h)) \o clean_text(SubSeq(s, h + 1, Len(s)))

get_tokens(s) ==
    SelectSeq(split(clean_text(s)), LAMBDA w : w # <<>> /\ w \notin STOP_WORDS)

(***************************************************************************)
(* lore_search.py: _fuzzy_match                                            *)
(***************************************************************************)
RECURSIVE common_positions(_, _, _)
common_positions(word, target, i) ==
    IF i > Min(Len(word), Len(target)) THEN 0
    ELSE (IF word[i] = target[i] THEN 1 ELSE 0)
         + common_positions(word, target, i + 1)

\* _fuzzy_match with the length test "len >= 3".
fuzzy_match_from_three(word, target) ==
    IF word = target THEN TRUE
    ELSE IF Len(word) >= 3 /\ Len(target) >= 3
         THEN LET common == common_positions(word, target, 1)
              IN  10 * common >= 7 * Max(Len(word), Len(target))
         ELSE FALSE

\* _fuzzy_match with the test "overlap > min_overlap".
fuzzy_match_strict(word, target) ==
    IF word = target THEN TRUE
    ELSE IF Len(word) > 3 /\ Len(target) > 3
         THEN LET common == common_positions(word, target, 1)
              IN  10 * common > 7 * Max(Len(word), Len(target))
         ELSE FALSE

_fuzzy_match(word, target) ==
    IF word = target THEN TRUE
    ELSE IF Len(word) > 3 /\ Len(target) > 3
         THEN LET common == common_positions(word, target, 1)
              IN  10 * common >= 7 * Max(Len(word), Len(target))
         ELSE FALSE


(***************************************************************************)
(* The Lore Store (services/lore_structure): six mappings from canonical   *)
(* key to entity and two alias indices from alias to canonical key.        *)
(***************************************************************************)
has_key(d, k) == \E i \in 1..Len(d) : d[i][1] = k

\* d[k], for a key that is present
item(d, k) == d[CHOOSE i \in 1..Len(d) : d[i][1] = k][2]

\* lore.find_character(name), lore.find_location(name): the name or alias
\* is resolved through the alias index, else taken as a canonical key.
find_key(index, catalog, name) ==
    LET n == lower(name)
    IN  IF has_key(index, n) /\ has_key(catalog, item(index, n))
        THEN <<item(index, n)>>
        ELSE IF has_key(catalog, n) THEN <<n>> ELSE <<>>

find_character(L, name) == find_key(L.char_aliases_index, L.characters, name)

find_location(L, name) == find_key(L.loc_aliases_index, L.locations, name)

\* lore.find_anomaly(name), lore.find_mutant(name): lookup by canonical key.
find_anomaly(L, name) == IF has_key(L.anomalies, lower(name)) THEN <<lower(name)>> ELSE <<>>

find_mutant(L, name) == IF has_key(L.mutants, lower(name)) THEN <<lower(name)>> ELSE <<>>

(***************************************************************************)
(* lore_search.py: _parse_query.  Each tier returns the list of names it   *)
(* found.                                                                  *)
(***************************************************************************)
\* Lines 131-136 (characters) and 166-171 (locations): every query token
\* that is an alias resolving to an entity appends that entity's name.
\* The token tier appending the canonical key, not the entity's name.
RECURSIVE alias_token_tier_keys(_, _, _, _)
alias_token_tier_keys(tokens, index, catalog, found) ==
    IF tokens = <<>> THEN found
    ELSE LET token == Head(tokens)
             hit == has_key(index, token) /\ has_key(catalog, item(index, token))
         IN  alias_token_tier_keys(Tail(tokens), index, catalog,
                 IF hit THEN Append(found, item(index, token)) ELSE found)

RECURSIVE alias_token_tier(_, _, _, _)
alias_token_tier(tokens, index, catalog, found) ==
    IF tokens = <<>> THEN found
    ELSE LET token == Head(tokens)
             hit == has_key(index, token) /\ has_key(catalog, item(index, token))
         IN  alias_token_tier(Tail(tokens), index, catalog,
                 IF hit THEN Append(found, item(catalog, item(index, token)).name)
                 ELSE found)

\* Lines 139-145 and 174-180: every alias that is a substring of the
\* lowercased query appends its entity's name, if not yet in the list.
RECURSIVE alias_substring_tier(_, _, _, _, _)
alias_substring_tier(query_lower, index, catalog, i, found) ==
    IF i > Len(index) THEN found
    ELSE LET alias_key == index[i][1]
             canonical_key == index[i][2]
             hit == /\ IsSubstring(alias_key, query_lower)
                    /\ has_key(catalog, canonical_key)
                    /\ ~InSeq(item(catalog, canonical_key).name, found)
         IN  alias_substring_tier(query_lower, index, catalog, i + 1,
                 IF hit THEN Append(found, item(catalog, canonical_key).name)
                 ELSE found)

\* The inner loop of lines 150-156: the words are compared in order; the
\* first word that matches an alias whose entity is not yet listed appends
\* the name and ends the loop.
RECURSIVE fuzzy_words(_, _, _, _)
fuzzy_words(words, target, name, found) ==
    IF words = <<>> THEN found
    ELSE IF _fuzzy_match(Head(words), target) /\ ~InSeq(name, found)
         THEN Append(found, name)
         ELSE fuzzy_words(Tail(words), target, name, found)

\* Lines 148-156 and 183-191.
RECURSIVE alias_fuzzy_tier(_, _, _, _, _)
alias_fuzzy_tier(tokens, index, catalog, i, found) ==
    IF i > Len(index) THEN found
    ELSE LET alias_key == index[i][1]
             canonical_key == index[i][2]
         IN  alias_fuzzy_tier(tokens, index, catalog, i + 1,
                 IF has_key(catalog, canonical_key)
                 THEN fuzzy_words(tokens, alias_key,
                                  item(catalog, canonical_key).name, found)
                 ELSE found)

\* Lines 199-202 and 226-229: catalog.get(token.lower()).
RECURSIVE key_token_tier(_, _, _)
key_token_tier(tokens, catalog, found) ==
    IF tokens = <<>> THEN found
    ELSE LET k == lower(Head(tokens))
         IN  key_token_tier(Tail(tokens), catalog,
                 IF has_key(catalog, k) THEN Append(found, item(catalog, k).name)
                 ELSE found)

\* Lines 205-209, 232-236, 253-256, 273-276.
RECURSIVE key_substring_tier(_, _, _, _)
key_substring_tier(query_lower, catalog, i, found) ==
    IF i > Len(catalog) THEN found
    ELSE LET hit == /\ IsSubstring(catalog[i][1], query_lower)
                    /\ ~InSeq(catalog[i][2].name, found)
         IN  key_substring_tier(query_lower, catalog, i + 1,
                 IF hit THEN Append(found, catalog[i][2].name) ELSE found)

\* Lines 212-218, 239-245, 259-265, 279-285.
RECURSIVE key_fuzzy_tier(_, _, _, _)
key_fuzzy_tier(tokens, catalog, i, found) ==
    IF i > Len(catalog) THEN found
    ELSE key_fuzzy_tier(tokens, catalog, i + 1,
             fuzzy_words(tokens, catalog[i][1], catalog[i][2].name, found))

\* The tiers of an alias-indexed type run one after the other on one list,
\* without the "if not found" tests of lines 139 and 148.
alias_tiers_merged(query_lower, tokens, index, catalog) ==
    alias_fuzzy_tier(tokens, index, catalog, 1,
        alias_substring_tier(query_lower, index, catalog, 1,
            alias_token_tier(tokens, index, catalog, <<>>)))

\* The three tiers of an alias-indexed type (characters, locations).
alias_tiers(query_lower, tokens, index, catalog) ==
    LET exact == alias_token_tier(tokens, index, catalog, <<>>)
    IN  IF exact # <<>> THEN exact
        ELSE LET sub == alias_substring_tier(query_lower, index, catalog, 1, <<>>)
             IN  IF sub # <<>> THEN sub
                 ELSE alias_fuzzy_tier(tokens, index, catalog, 1, <<>>)

\* The three tiers of anomalies and mutants.
key_tiers(query_lower, tokens, catalog) ==
    LET exact == key_token_tier(tokens, catalog, <<>>)
    IN  IF exact # <<>> THEN exact
        ELSE LET sub == key_substring_tier(query_lower, catalog, 1, <<>>)
             IN  IF sub # <<>> THEN sub
                 ELSE key_fuzzy_tier(tokens, catalog, 1, <<>>)

\* The two tiers of terms and factions.
name_tiers(query_lower, tokens, catalog) ==
    LET sub == key_substring_tier(query_lower, catalog, 1, <<>>)
    IN  IF sub # <<>> THEN sub
        ELSE key_fuzzy_tier(tokens, catalog, 1, <<>>)

found_characters(L, query) ==
    alias_tiers(lower(query), get_tokens(query), L.char_aliases_index, L.characters)

found_locations(L, query) ==
    alias_tiers(lower(query), get_tokens(query), L.loc_aliases_index, L.locations)

found_anomalies(L, query) == key_tiers(lower(query), get_tokens(query), L.anomalies)

found_mutants(L, query) == key_tiers(lower(query), get_tokens(query), L.mutants)

found_terms(L, query) == name_tiers(lower(query), get_tokens(query), L.terms)

found_factions(L, query) == name_tiers(lower(query), get_tokens(query), L.factions)

\* _parse_query with the location and anomaly blocks in the other order.
parse_query_anomaly_first(L, query) ==
    IF found_characters(L, query) # <<>>
    THEN <<"character", found_characters(L, query)>>
    ELSE IF found_anomalies(L, query) # <<>>
    THEN <<"anomaly", found_anomalies(L, query)>>
    ELSE IF found_locations(L, query) # <<>>
    THEN <<"location", found_locations(L, query)>>
    ELSE IF found_mutants(L, query) # <<>>
    THEN <<"mutant", found_mutants(L, query)>>
    ELSE IF found_terms(L, query) # <<>>
    THEN <<"term", found_terms(L, query)>>
    ELSE IF found_factions(L, query) # <<>>
    THEN <<"faction", found_factions(L, query)>>
    ELSE <<"general", <<>> >>

_parse_query(L, query) ==
    IF found_characters(L, query) # <<>>
    THEN <<"character", found_characters(L, query)>>
    ELSE IF found_locations(L, query) # <<>>
    THEN <<"location", found_locations(L, query)>>
    ELSE IF found_anomalies(L, query) # <<>>
    THEN <<"anomaly", found_anomalies(L, query)>>
    ELSE IF found_mutants(L, query) # <<>>
    THEN <<"mutant", found_mutants(L, query)>>
    ELSE IF found_terms(L, query) # <<>>
    THEN <<"term", found_terms(L, query)>>
    ELSE IF found_factions(L, query) # <<>>
    THEN <<"faction", found_factions(L, query)>>
    ELSE <<"general", <<>> >>


(***************************************************************************)
(* String helpers of the assemblers.                                       *)
(***************************************************************************)
\* a < b on Python strings: lexicographic on code points.
str_less(a, b) ==
    \E i \in 1..(Min(Len(a), Len(b)) + 1) :
        /\ \A j \in 1..(i - 1) : a[j] = b[j]
        /\ IF i > Len(a) THEN i <= Len(b)
           ELSE IF i > Len(b) THEN FALSE
           ELSE a[i] < b[i]

\* sorted(S) for a set of strings
RECURSIVE sorted_strings(_)
sorted_strings(S) ==
    IF S = {} THEN <<>>
    ELSE LET m == CHOOSE x \in S : \A y \in S \ {x} : str_less(x, y)
         IN  <<m>> \o sorted_strings(S \ {m})

\* sep.join(parts)
RECURSIVE join(_, _)
join(sep, parts) ==
    IF parts = <<>> THEN <<>>
    ELSE IF Len(parts) = 1 THEN parts[1]
    ELSE parts[1] \o sep \o join(sep, Tail(parts))

\* s[:n]
take(s, n) == SubSeq(s, 1, Min(n, Len(s)))

\* A relevance score is a float; the model holds it as the exact fraction
\* num/den, den > 0.
score(n) == [num |-> n, den |-> 1]

NL == <<10>>
COMMA_SPACE == <<44, 32>>
STARS == <<42, 42>>
RULE == <<10, 10, 45, 45, 45, 10, 10>>
TRIGGER_WORDS ==
    << <<1076, 1088, 1091, 1075>>, <<1074, 1088, 1072, 1075>>, <<1075, 1088, 1091, 1087, 1087, 1072>>, <<1073, 1088, 1072, 1090>>, <<1089, 1074, 1103, 1079, 1100>>, <<1079, 1085, 1072, 1082, 1086, 1084>> >>
RELATED_CHARACTERS_LABEL == <<10, 1057, 1074, 1103, 1079, 1072, 1085, 1085, 1099, 1077, 32, 1087, 1077, 1088, 1089, 1086, 1085, 1072, 1078, 1080, 58, 32>>
MENTIONED_LABEL == <<1059, 1087, 1086, 1084, 1103, 1085, 1091, 1090, 40, 1072, 41, 32, 1074, 32, 1080, 1085, 1092, 1086, 1088, 1084, 1072, 1094, 1080, 1080, 32, 1086, 32>>
ABOUT_LOCATION_LABEL == <<10, 10, 42, 42, 1054, 32, 1083, 1086, 1082, 1072, 1094, 1080, 1080, 32>>
ABOUT_LOCATION_END == <<58, 42, 42, 10>>
ALSO_KNOWN_LABEL == <<1058, 1072, 1082, 1078, 1077, 32, 1080, 1079, 1074, 1077, 1089, 1090, 1085, 1072, 32, 1082, 1072, 1082, 58, 32>>
RELATED_LOCATIONS_LABEL == <<10, 1057, 1074, 1103, 1079, 1072, 1085, 1085, 1099, 1077, 32, 1083, 1086, 1082, 1072, 1094, 1080, 1080, 58, 32>>
CHARACTERS_IN_LOCATION_LABEL == <<10, 1055, 1077, 1088, 1089, 1086, 1085, 1072, 1078, 1080, 32, 1074, 32, 1083, 1086, 1082, 1072, 1094, 1080, 1080, 58, 10>>
OTHER_NAMES_LABEL == <<1044, 1088, 1091, 1075, 1080, 1077, 32, 1085, 1072, 1079, 1074, 1072, 1085, 1080, 1103, 58, 32>>
GENERAL_CHARACTER_LABEL == <<42, 42, 1055, 1077, 1088, 1089, 1086, 1085, 1072, 1078, 58, 32>>
GENERAL_LOCATION_LABEL == <<42, 42, 1051, 1086, 1082, 1072, 1094, 1080, 1103, 58, 32>>
GENERAL_ANOMALY_LABEL == <<42, 42, 1040, 1085, 1086, 1084, 1072, 1083, 1080, 1103, 58, 32>>
GENERAL_MUTANT_LABEL == <<42, 42, 1052, 1091, 1090, 1072, 1085, 1090, 58, 32>>
TERM_LABEL == <<42, 42, 1058, 1077, 1088, 1084, 1080, 1085, 58, 32>>
ALIASES_LABEL == <<1040, 1083, 1080, 1072, 1089, 1099, 58, 32>>
TERM_CONTEXT_LABEL == <<10, 1050, 1086, 1085, 1090, 1077, 1082, 1089, 1090, 58, 32>>
FACTION_LABEL == <<42, 42, 1043, 1088, 1091, 1087, 1087, 1080, 1088, 1086, 1074, 1082, 1072, 58, 32>>
GOALS_LABEL == <<10, 1062, 1077, 1083, 1080, 58, 32>>
MEMBERS_LABEL == <<10, 1063, 1083, 1077, 1085, 1099, 58, 32>>

(***************************************************************************)
(* lore_search.py: the character assembler.                                *)
(***************************************************************************)
\* Character.get_full_info(): the biography text of the character.
get_full_info(character) == character.name \o NL \o character.description

\* Lines 545-550: the characters, other than the one stored under the
\* lowercased name, whose description contains the lowercased name.
RECURSIVE mentions_of(_, _, _)
mentions_of(characters, char_name_lower, i) ==
    IF i > Len(characters) THEN <<>>
    ELSE (IF /\ characters[i][1] # char_name_lower
             /\ IsSubstring(char_name_lower, lower(characters[i][2].description))
          THEN << MENTIONED_LABEL \o characters[i][2].name >>
          ELSE <<>>)
         \o mentions_of(characters, char_name_lower, i + 1)

_find_related_context(L, character, query) ==
    LET query_lower == lower(query)
        asked == \E w \in 1..Len(TRIGGER_WORDS) : IsSubstring(TRIGGER_WORDS[w], query_lower)
        related == IF character.related_characters # <<>> /\ asked
                   THEN << RELATED_CHARACTERS_LABEL
                           \o join(COMMA_SPACE, character.related_characters) >>
                   ELSE <<>>
        mentions == mentions_of(L.characters, lower(character.name), 1)
        related_parts == IF mentions # <<>> /\ Len(mentions) <= 3
                         THEN related \o take(mentions, 2)
                         ELSE related
    IN  join(NL, related_parts)

\* One pass of the loop of lines 302-323 over the matched names.
RECURSIVE character_loop(_, _, _, _, _)
character_loop(L, names, query, context_parts, relevance) ==
    IF names = <<>> THEN [parts |-> context_parts, relevance |-> relevance]
    ELSE LET k == find_character(L, Head(names))
         IN  IF k = <<>>
             THEN character_loop(L, Tail(names), query, context_parts, relevance)
             ELSE LET character == item(L.characters, k[1])
                      related_context == _find_related_context(L, character, query)
                      loc == IF character.location # <<>>
                             THEN find_location(L, character.location)
                             ELSE <<>>
                      p1 == Append(context_parts, get_full_info(character))
                      p2 == IF related_context # <<>>
                            THEN Append(p1, NL \o NL \o related_context)
                            ELSE p1
                      p3 == IF loc # <<>>
                            THEN Append(p2, ABOUT_LOCATION_LABEL
                                            \o item(L.locations, loc[1]).name
                                            \o ABOUT_LOCATION_END
                                            \o item(L.locations, loc[1]).description)
                            ELSE p2
                      r == relevance + 50
                             + (IF related_context # <<>> THEN 10 ELSE 0)
                             + (IF loc # <<>> THEN 5 ELSE 0)
                  IN  character_loop(L, Tail(names), query, p3, r)

\* _retrieve_character_context returning the accumulated relevance uncapped.
retrieve_character_context_uncapped(L, character_names, query) ==
    LET acc == character_loop(L, character_names, query, <<>>, 0)
    IN  <<join(NL, acc.parts), score(acc.relevance)>>

_retrieve_character_context(L, character_names, query) ==
    LET acc == character_loop(L, character_names, query, <<>>, 0)
    IN  <<join(NL, acc.parts), score(Min(acc.relevance, 100))>>

(***************************************************************************)
(* lore_search.py: the location assembler.                                 *)
(***************************************************************************)
RECURSIVE characters_mentioning(_, _, _)
characters_mentioning(characters, loc_name_lower, i) ==
    IF i > Len(characters) THEN <<>>
    ELSE (IF IsSubstring(loc_name_lower, lower(characters[i][2].description))
          THEN << <<45, 32>> \o characters[i][2].name \o <<58, 32>>
                  \o take(characters[i][2].description, 100) \o <<46, 46, 46>> >>
          ELSE <<>>)
         \o characters_mentioning(characters, loc_name_lower, i + 1)

\* Every character that mentions the location, however many there are.
find_characters_in_location_uncapped(L, location) ==
    characters_mentioning(L.characters, lower(location.name), 1)

_find_characters_in_location(L, location) ==
    take(characters_mentioning(L.characters, lower(location.name), 1), 5)

RECURSIVE location_loop(_, _, _, _)
location_loop(L, names, context_parts, relevance) ==
    IF names = <<>> THEN [parts |-> context_parts, relevance |-> relevance]
    ELSE LET k == find_location(L, Head(names))
         IN  IF k = <<>>
             THEN location_loop(L, Tail(names), context_parts, relevance)
             ELSE LET location == item(L.locations, k[1])
                      parts == << STARS \o location.name \o STARS >>
                               \o (IF location.aliases # {}
                                   THEN << ALSO_KNOWN_LABEL
                                           \o join(COMMA_SPACE, sorted_strings(location.aliases)) >>
                                   ELSE <<>>)
                               \o << NL \o location.description >>
                      related_chars == _find_characters_in_location(L, location)
                      p1 == Append(context_parts, join(NL, parts))
                      p2 == IF location.related_locations # {}
                            THEN Append(p1, RELATED_LOCATIONS_LABEL
                                    \o join(COMMA_SPACE, sorted_strings(location.related_locations)))
                            ELSE p1
                      p3 == IF related_chars # <<>>
                            THEN Append(p2, CHARACTERS_IN_LOCATION_LABEL \o join(NL, related_chars))
                            ELSE p2
                      r == relevance + 40
                             + (IF location.related_locations # {} THEN 3 ELSE 0)
                             + (IF related_chars # <<>> THEN 5 ELSE 0)
                  IN  location_loop(L, Tail(names), p3, r)

_retrieve_location_context(L, location_names, query) ==
    LET acc == location_loop(L, location_names, <<>>, 0)
    IN  <<join(NL, acc.parts), score(Min(acc.relevance, 100))>>

(***************************************************************************)
(* lore_search.py: the anomaly and mutant assemblers.                      *)
(***************************************************************************)
\* The body of the loops of lines 370-382 and 392-404, for a resolved entity.
named_part(entity) ==
    join(NL, << STARS \o entity.name \o STARS >>
             \o (IF entity.aliases # {}
                 THEN << OTHER_NAMES_LABEL \o join(COMMA_SPACE, sorted_strings(entity.aliases)) >>
                 ELSE <<>>)
             \o << NL \o entity.description >>)

RECURSIVE anomaly_loop(_, _, _, _)
anomaly_loop(L, names, context_parts, relevance) ==
    IF names = <<>> THEN [parts |-> context_parts, relevance |-> relevance]
    ELSE LET k == find_anomaly(L, Head(names))
         IN  IF k = <<>>
             THEN anomaly_loop(L, Tail(names), context_parts, relevance)
             ELSE anomaly_loop(L, Tail(names),
                      Append(context_parts, named_part(item(L.anomalies, k[1]))),
                      relevance + 35)

_retrieve_anomaly_context(L, anomaly_names, query) ==
    LET acc == anomaly_loop(L, anomaly_names, <<>>, 0)
    IN  <<join(NL, acc.parts), score(Min(acc.relevance, 100))>>

RECURSIVE mutant_loop(_, _, _, _)
mutant_loop(L, names, context_parts, relevance) ==
    IF names = <<>> THEN [parts |-> context_parts, relevance |-> relevance]
    ELSE LET k == find_mutant(L, Head(names))
         IN  IF k = <<>>
             THEN mutant_loop(L, Tail(names), context_parts, relevance)
             ELSE mutant_loop(L, Tail(names),
                      Append(context_parts, named_part(item(L.mutants, k[1]))),
                      relevance + 35)

_retrieve_mutant_context(L, mutant_names, query) ==
    LET acc == mutant_loop(L, mutant_names, <<>>, 0)
    IN  <<join(NL, acc.parts), score(Min(acc.relevance, 100))>>

(***************************************************************************)
(* lore_search.py: the term and faction assemblers.                        *)
(***************************************************************************)
term_part(term) ==
    join(NL, << TERM_LABEL \o term.name \o STARS >>
             \o (IF term.aliases # {}
                 THEN << ALIASES_LABEL \o join(COMMA_SPACE, sorted_strings(term.aliases)) >>
                 ELSE <<>>)
             \o << NL \o term.definition >>
             \o (IF term.context # <<>> THEN << TERM_CONTEXT_LABEL \o term.context >> ELSE <<>>))

RECURSIVE term_loop(_, _, _, _)
term_loop(L, names, context_parts, relevance) ==
    IF names = <<>> THEN [parts |-> context_parts, relevance |-> relevance]
    ELSE LET k == lower(Head(names))
         IN  IF ~has_key(L.terms, k)
             THEN term_loop(L, Tail(names), context_parts, relevance)
             ELSE term_loop(L, Tail(names),
                      Append(context_parts, term_part(item(L.terms, k))),
                      relevance + 30)

_retrieve_term_context(L, term_names, query) ==
    LET acc == term_loop(L, term_names, <<>>, 0)
    IN  <<join(RULE, acc.parts), score(Min(acc.relevance, 100))>>

faction_part(faction) ==
    join(NL, << FACTION_LABEL \o faction.name \o STARS >>
             \o (IF faction.aliases # {}
                 THEN << ALIASES_LABEL \o join(COMMA_SPACE, sorted_strings(faction.aliases)) >>
                 ELSE <<>>)
             \o << NL \o faction.description >>
             \o (IF faction.goals # <<>> THEN << GOALS_LABEL \o faction.goals >> ELSE <<>>)
             \o (IF faction.members # {}
                 THEN << MEMBERS_LABEL \o join(COMMA_SPACE, sorted_strings(faction.members)) >>
                 ELSE <<>>))

RECURSIVE faction_loop(_, _, _, _)
faction_loop(L, names, context_parts, relevance) ==
    IF names = <<>> THEN [parts |-> context_parts, relevance |-> relevance]
    ELSE LET k == lower(Head(names))
         IN  IF ~has_key(L.factions, k)
             THEN faction_loop(L, Tail(names), context_parts, relevance)
             ELSE faction_loop(L, Tail(names),
                      Append(context_parts, faction_part(item(L.factions, k))),
                      relevance + 35)

_retrieve_faction_context(L, faction_names, query) ==
    LET acc == faction_loop(L, faction_names, <<>>, 0)
    IN  <<join(RULE, acc.parts), score(Min(acc.relevance, 100))>>


(***************************************************************************)
(* lore_search.py: the general fallback.                                   *)
(***************************************************************************)
\* _contains_query_words asking for all query words, not for any.
contains_all_query_words(text, query_tokens) ==
    LET text_lower == lower(text)
        text_tokens == get_tokens(text)
    IN  \A i \in 1..Len(query_tokens) :
            \/ InSeq(query_tokens[i], text_tokens)
            \/ IsSubstring(query_tokens[i], text_lower)

_contains_query_words(text, query_tokens) ==
    LET text_lower == lower(text)
        text_tokens == get_tokens(text)
    IN  \E i \in 1..Len(query_tokens) :
            \/ InSeq(query_tokens[i], text_tokens)
            \/ IsSubstring(query_tokens[i], text_lower)

RECURSIVE count_matches(_, _, _)
count_matches(text_tokens, text_lower, query_tokens) ==
    IF query_tokens = <<>> THEN 0
    ELSE (IF InSeq(Head(query_tokens), text_tokens) THEN 2
          ELSE IF IsSubstring(Head(query_tokens), text_lower) THEN 1
          ELSE 0)
         + count_matches(text_tokens, text_lower, Tail(query_tokens))

\* _calculate_relevance with "if" for "elif" in line 524: a word that is a
\* token of the text counts 2 and 1 more as a substring of it.
calculate_relevance_adding_both(text, query_tokens) ==
    LET matches == count_matches(get_tokens(text), lower(text), query_tokens)
                   + Cardinality({i \in 1..Len(query_tokens) :
                                     InSeq(query_tokens[i], get_tokens(text))})
        n == Max(Len(query_tokens), 1)
    IN  [num |-> Min(20 * matches, 100 * n), den |-> n]

\* min((matches / max(len(query_tokens), 1)) * 20, 100.0) as a fraction
_calculate_relevance(text, query_tokens) ==
    LET matches == count_matches(get_tokens(text), lower(text), query_tokens)
        n == Max(Len(query_tokens), 1)
    IN  [num |-> Min(20 * matches, 100 * n), den |-> n]

\* One of the four scans of lines 422-447: the (relevance, part) pairs of
\* the entities of one catalog whose description contains a query word.
RECURSIVE scan(_, _, _, _)
scan(catalog, label, query_tokens, i) ==
    IF i > Len(catalog) THEN <<>>
    ELSE (IF _contains_query_words(catalog[i][2].description, query_tokens)
          THEN << [relevance |-> _calculate_relevance(catalog[i][2].description, query_tokens),
                   part |-> label \o catalog[i][2].name \o STARS \o NL
                            \o catalog[i][2].description] >>
          ELSE <<>>)
         \o scan(catalog, label, query_tokens, i + 1)

\* (relevance, part) tuple order of Python; the relevances of one call have
\* the same denominator.
pair_less(x, y) ==
    \/ x.relevance.num < y.relevance.num
    \/ x.relevance.num = y.relevance.num /\ str_less(x.part, y.part)

\* sorted(pairs, reverse=True)
RECURSIVE sorted_reverse(_)
sorted_reverse(pairs) ==
    IF pairs = <<>> THEN <<>>
    ELSE LET i == CHOOSE i \in 1..Len(pairs) :
                      /\ \A j \in 1..Len(pairs) : ~pair_less(pairs[i], pairs[j])
                      /\ \A j \in 1..(i - 1) : pair_less(pairs[j], pairs[i])
         IN  <<pairs[i]>>
             \o sorted_reverse(SubSeq(pairs, 1, i - 1) \o SubSeq(pairs, i + 1, Len(pairs)))

RECURSIVE sum_num(_)
sum_num(pairs) ==
    IF pairs = <<>> THEN 0 ELSE Head(pairs).relevance.num + sum_num(Tail(pairs))

\* Lines 417-447: the four scans, in this order.
general_candidates(L, query_tokens) ==
    scan(L.characters, GENERAL_CHARACTER_LABEL, query_tokens, 1)
    \o scan(L.locations, GENERAL_LOCATION_LABEL, query_tokens, 1)
    \o scan(L.anomalies, GENERAL_ANOMALY_LABEL, query_tokens, 1)
    \o scan(L.mutants, GENERAL_MUTANT_LABEL, query_tokens, 1)

\* Lines 453-458 with the mean taken over the 5 candidates that are shown.
general_result_mean_of_shown(found, n) ==
    LET sorted_pairs == sorted_reverse(found)
        sorted_parts == [i \in 1..Len(found) |-> sorted_pairs[i].part]
        context == join(RULE, take(sorted_parts, 5))
        shown == take(sorted_pairs, 5)
        total == sum_num(shown)
    IN  IF total > 100 * n * Len(shown)
        THEN <<context, score(100)>>
        ELSE <<context, [num |-> total, den |-> n * Len(shown)]>>

\* Lines 453-458: the top 5 of the sorted parts and the mean relevance.
general_result(found, n) ==
    LET sorted_pairs == sorted_reverse(found)
        sorted_parts == [i \in 1..Len(found) |-> sorted_pairs[i].part]
        context == join(RULE, take(sorted_parts, 5))
        total == sum_num(found)
    IN  IF total > 100 * n * Len(found)
        THEN <<context, score(100)>>
        ELSE <<context, [num |-> total, den |-> n * Len(found)]>>

\* _retrieve_general_context answering with a placeholder text, not "",
\* when nothing was found.
retrieve_general_context_placeholder(L, query) ==
    LET query_tokens == get_tokens(query)
        found == general_candidates(L, query_tokens)
    IN  IF found = <<>> THEN << <<45, 45, 45>>, score(0) >>
        ELSE general_result(found, Max(Len(query_tokens), 1))

_retrieve_general_context(L, query) ==
    LET query_tokens == get_tokens(query)
        found == general_candidates(L, query_tokens)
    IN  IF found = <<>> THEN << <<>>, score(0) >>
        ELSE general_result(found, Max(Len(query_tokens), 1))

(***************************************************************************)
(* lore_search.py: retrieve_context.                                       *)
(***************************************************************************)
\* retrieve_context counting the characters of the context, not its words.
retrieve_context_counting_characters(L, query) ==
    LET parsed == _parse_query(L, query)
        assembled == IF parsed[2] = <<>> THEN _retrieve_general_context(L, query)
                     ELSE CASE parsed[1] = "character" ->
                                   _retrieve_character_context(L, parsed[2], query)
                            [] parsed[1] = "location" ->
                                   _retrieve_location_context(L, parsed[2], query)
                            [] parsed[1] = "anomaly" ->
                                   _retrieve_anomaly_context(L, parsed[2], query)
                            [] parsed[1] = "mutant" ->
                                   _retrieve_mutant_context(L, parsed[2], query)
                            [] parsed[1] = "term" ->
                                   _retrieve_term_context(L, parsed[2], query)
                            [] parsed[1] = "faction" ->
                                   _retrieve_faction_context(L, parsed[2], query)
                            [] OTHER -> _retrieve_general_context(L, query)
    IN  [context |-> assembled[1],
         metadata |-> [query |-> query,
                       entity_type |-> parsed[1],
                       found_entities |-> parsed[2],
                       context_sources |-> <<>>,
                       relevance_score |-> assembled[2],
                       token_count |-> Len(assembled[1])]]

retrieve_context(L, query) ==
    LET parsed == _parse_query(L, query)
        entity_type == parsed[1]
        matched_entities == parsed[2]
        assembled ==
            IF matched_entities = <<>> THEN _retrieve_general_context(L, query)
            ELSE CASE entity_type = "character" ->
                          _retrieve_character_context(L, matched_entities, query)
                   [] entity_type = "location" ->
                          _retrieve_location_context(L, matched_entities, query)
                   [] entity_type = "anomaly" ->
                          _retrieve_anomaly_context(L, matched_entities, query)
                   [] entity_type = "mutant" ->
                          _retrieve_mutant_context(L, matched_entities, query)
                   [] entity_type = "term" ->
                          _retrieve_term_context(L, matched_entities, query)
                   [] entity_type = "faction" ->
                          _retrieve_faction_context(L, matched_entities, query)
                   [] OTHER -> _retrieve_general_context(L, query)
    IN  [context |-> assembled[1],
         metadata |-> [query |-> query,
                       entity_type |-> entity_type,
                       found_entities |-> matched_entities,
                       context_sources |-> <<>>,
                       relevance_score |-> assembled[2],
                       token_count |-> word_count(assembled[1])]]


(***************************************************************************)
(* Lore Stores the engine is run on.  Keys and aliases are lowercase and   *)
(* non-empty, as the loader stores them.                                   *)
(***************************************************************************)
Character(name, aliases, description, location, related_characters) ==
    [name |-> name, aliases |-> aliases, description |-> description,
     location |-> location, related_characters |-> related_characters]

Location(name, aliases, description, related_locations) ==
    [name |-> name, aliases |-> aliases, description |-> description,
     related_locations |-> related_locations]

\* Anomaly and Mutant
Creature(name, aliases, description) ==
    [name |-> name, aliases |-> aliases, description |-> description]

Term(name, aliases, definition, context) ==
    [name |-> name, aliases |-> aliases, definition |-> definition, context |-> context]

Faction(name, aliases, description, goals, members) ==
    [name |-> name, aliases |-> aliases, description |-> description,
     goals |-> goals, members |-> members]

LoreEmpty ==
    [characters |-> <<>>, locations |-> <<>>, anomalies |-> <<>>, mutants |-> <<>>,
     terms |-> <<>>, factions |-> <<>>,
     char_aliases_index |-> <<>>, loc_aliases_index |-> <<>>]

\* Character Strelok with aliases {strelok, стрелок} and nothing else.
LoreStrelok ==
    [LoreEmpty EXCEPT
        !.characters = << <<<<115, 116, 114, 101, 108, 111, 107>>,
            Character(<<83, 116, 114, 101, 108, 111, 107>>, {<<115, 116, 114, 101, 108, 111, 107>>, <<1089, 1090, 1088, 1077, 1083, 1086, 1082>>}, <<115, 116, 97, 108, 107, 101, 114>>, <<>>, <<>>)>> >>,
        !.char_aliases_index = << <<<<115, 116, 114, 101, 108, 111, 107>>, <<115, 116, 114, 101, 108, 111, 107>>>>, <<<<1089, 1090, 1088, 1077, 1083, 1086, 1082>>, <<115, 116, 114, 101, 108, 111, 107>>>> >>]

\* One or two entities of every type, keys of two letters over {a, b, c}.
LoreFull ==
    [characters |-> <<
        <<<<97, 97>>, Character(<<65, 97>>, {<<97, 97>>, <<97, 99>>}, <<65, 97, 32, 99, 98>>, <<66, 98>>, <<<<66, 97>>>>)>>,
        <<<<98, 97>>, Character(<<66, 97>>, {<<98, 97>>}, <<97, 97, 32, 98, 98>>, <<>>, <<>>)>> >>,
     char_aliases_index |-> << <<<<97, 97>>, <<97, 97>>>>, <<<<97, 99>>, <<97, 97>>>>, <<<<98, 97>>, <<98, 97>>>> >>,
     locations |-> << <<<<98, 98>>, Location(<<66, 98>>, {<<98, 98>>, <<98, 120>>}, <<99>>, {<<67, 99>>})>> >>,
     loc_aliases_index |-> << <<<<98, 98>>, <<98, 98>>>>, <<<<98, 120>>, <<98, 98>>>> >>,
     anomalies |-> << <<<<99, 99>>, Creature(<<67, 99>>, {<<99, 99>>}, <<97, 32, 98>>)>> >>,
     mutants |-> << <<<<97, 98>>, Creature(<<65, 98>>, {}, <<99, 98>>)>> >>,
     terms |-> << <<<<98, 99>>, Term(<<66, 99>>, {}, <<99>>, <<>>)>> >>,
     factions |-> << <<<<99, 97>>, Faction(<<67, 97>>, {<<99, 120>>}, <<97>>, <<98>>, {<<65, 97>>})>> >>]

\* One entity of every type, keys of four letters: the fuzzy tier.
LoreLong ==
    [characters |-> << <<<<97, 97, 97, 97>>, Character(<<65, 97, 97, 97>>, {<<97, 97, 97, 97>>}, <<99>>, <<>>, <<>>)>> >>,
     char_aliases_index |-> << <<<<97, 97, 97, 97>>, <<97, 97, 97, 97>>>> >>,
     locations |-> << <<<<98, 98, 98, 98>>, Location(<<66, 98, 98, 98>>, {}, <<98>>, {})>> >>,
     loc_aliases_index |-> << <<<<98, 98, 98, 98>>, <<98, 98, 98, 98>>>> >>,
     anomalies |-> << <<<<99, 99, 99, 99>>, Creature(<<67, 99, 99, 99>>, {}, <<97>>)>> >>,
     mutants |-> << <<<<97, 98, 97, 98>>, Creature(<<65, 98, 97, 98>>, {}, <<98>>)>> >>,
     terms |-> << <<<<98, 99, 98, 99>>, Term(<<66, 99, 98, 99>>, {<<98, 99, 98, 99>>}, <<99>>, <<97>>)>> >>,
     factions |-> << <<<<99, 97, 99, 97>>, Faction(<<67, 97, 99, 97>>, {}, <<97>>, <<>>, {})>> >>]

\* Keys of one letter; an alias whose canonical key has no entity; entities
\* whose key is not their lowercased name; two entities with one name.
LoreQuirks ==
    [characters |-> <<
        <<<<97>>, Character(<<65, 120>>, {<<97>>}, <<65, 120, 32, 98>>, <<>>, <<<<65>>>>)>>,
        <<<<97, 120>>, Character(<<65, 120>>, {<<97, 120>>}, <<99>>, <<>>, <<>>)>> >>,
     char_aliases_index |-> << <<<<97>>, <<97>>>>, <<<<97, 98>>, <<122, 122>>>>, <<<<97, 120>>, <<97, 120>>>> >>,
     locations |-> << <<<<98>>, Location(<<66>>, {<<98>>}, <<98>>, {})>> >>,
     loc_aliases_index |-> << <<<<98>>, <<98>>>>, <<<<98, 98>>, <<98>>>> >>,
     anomalies |-> << <<<<99>>, Creature(<<67, 121>>, {<<99>>}, <<99>>)>> >>,
     mutants |-> <<>>,
     terms |-> <<>>,
     factions |-> <<>>]

\* Six characters with aliases over 'a' and 'b': A is mentioned in the
\* descriptions of five others, B of three, Ab of two, Ba of one, Bb of
\* none; Aa is stored under the key 'aa1' and its own description begins
\* with its name.  Eight descriptions hold the letter 'c', which is no key.
LoreCrowd ==
    [characters |-> <<
        <<<<97>>, Character(<<65>>, {<<97>>}, <<99>>, <<>>, <<>>)>>,
        <<<<98>>, Character(<<66>>, {<<98>>}, <<97, 32, 99, 99>>, <<>>, <<<<65>>>>)>>,
        <<<<97, 98>>, Character(<<65, 98>>, {<<97, 98>>}, <<97, 32, 98, 32, 99>>, <<>>, <<>>)>>,
        <<<<98, 97>>, Character(<<66, 97>>, {<<98, 97>>}, <<97, 32, 98, 32, 97, 98>>, <<>>, <<>>)>>,
        <<<<98, 98>>, Character(<<66, 98>>, {<<98, 98>>}, <<97, 32, 98, 32, 97, 98, 32, 98, 97, 32, 99, 32, 99>>, <<>>, <<>>)>>,
        <<<<97, 97, 49>>, Character(<<65, 97>>, {<<97, 97>>}, <<65, 97, 32, 99>>, <<>>, <<>>)>> >>,
     char_aliases_index |-> <<
        <<<<97>>, <<97>>>>,
        <<<<98>>, <<98>>>>,
        <<<<97, 98>>, <<97, 98>>>>,
        <<<<98, 97>>, <<98, 97>>>>,
        <<<<98, 98>>, <<98, 98>>>>,
        <<<<97, 97>>, <<97, 97, 49>>>> >>,
     locations |-> <<
        <<<<97, 98, 98>>, Location(<<65, 98, 98>>, {<<97, 98, 98>>}, <<99>>, {})>> >>,
     loc_aliases_index |-> <<
        <<<<97, 98, 98>>, <<97, 98, 98>>>> >>,
     anomalies |-> <<
        <<<<98, 97, 98>>, Creature(<<66, 97, 98>>, {}, <<99, 99>>)>> >>,
     mutants |-> <<
        <<<<98, 98, 97>>, Creature(<<66, 98, 97>>, {}, <<99, 32, 99, 99>>)>> >>,
     terms |-> <<>>,
     factions |-> <<>>]

\* Two terms and two factions, and nothing else.
LoreTerms ==
    [characters |-> <<>>,
     char_aliases_index |-> <<>>,
     locations |-> <<>>,
     loc_aliases_index |-> <<>>,
     anomalies |-> <<>>,
     mutants |-> <<>>,
     terms |-> <<
        <<<<98>>, Term(<<66>>, {}, <<99>>, <<>>)>>,
        <<<<99>>, Term(<<67>>, {<<99>>}, <<97>>, <<98>>)>> >>,
     factions |-> <<
        <<<<97>>, Faction(<<65>>, {}, <<98>>, <<>>, {})>>,
        <<<<97, 97>>, Faction(<<65, 97>>, {<<97, 97>>}, <<99>>, <<97>>, {<<66>>})>> >>]

Lores == {LoreEmpty, LoreStrelok, LoreFull, LoreLong, LoreQuirks, LoreCrowd, LoreTerms}

\* A town of four locations and seven characters who are no match for a
\* query over 'a', 'b', 'c': six descriptions hold the name of location A,
\* one description of 107 characters holds the name of B, none holds 'c';
\* B and Cc have related locations, A and C have none.
LoreTown ==
    [characters |-> <<
        <<<<120, 49>>, Character(<<88, 49>>, {<<120, 49>>}, <<97>>, <<>>, <<>>)>>,
        <<<<120, 50>>, Character(<<88, 50>>, {<<120, 50>>}, <<65>>, <<>>, <<>>)>>,
        <<<<120, 51>>, Character(<<88, 51>>, {<<120, 51>>}, <<120, 97>>, <<>>, <<>>)>>,
        <<<<120, 52>>, Character(<<88, 52>>, {<<120, 52>>}, <<97, 120>>, <<>>, <<>>)>>,
        <<<<120, 53>>, Character(<<88, 53>>, {<<120, 53>>}, <<97, 32, 97>>, <<>>, <<>>)>>,
        <<<<120, 54>>, Character(<<88, 54>>, {<<120, 54>>}, <<97, 65>>, <<>>, <<>>)>>,
        <<<<120, 55>>, Character(<<88, 55>>, {<<120, 55>>}, <<98, 120, 120, 120, 120, 120, 120, 120, 120, 120, 120, 120, 120, 120, 120, 120, 120, 120, 120, 120, 120, 120, 120, 120, 120, 120, 120, 120, 120, 120, 120, 120, 120, 120, 120, 120, 120, 120, 120, 120, 120, 120, 120, 120, 120, 120, 120, 120, 120, 120, 120, 120, 120, 120, 120, 120, 120, 120, 120, 120, 120, 120, 120, 120, 120, 120, 120, 120, 120, 120, 120, 120, 120, 120, 120, 120, 120, 120, 120, 120, 120, 120, 120, 120, 120, 120, 120, 120, 120, 120, 120, 120, 120, 120, 120, 120, 120, 120, 120, 120, 120, 120, 120, 120, 120, 98, 33>>, <<>>, <<>>)>> >>,
     char_aliases_index |-> <<
        <<<<120, 49>>, <<120, 49>>>>,
        <<<<120, 50>>, <<120, 50>>>>,
        <<<<120, 51>>, <<120, 51>>>>,
        <<<<120, 52>>, <<120, 52>>>>,
        <<<<120, 53>>, <<120, 53>>>>,
        <<<<120, 54>>, <<120, 54>>>>,
        <<<<120, 55>>, <<120, 55>>>> >>,
     locations |-> <<
        <<<<97>>, Location(<<65>>, {<<97>>}, <<120>>, {})>>,
        <<<<98>>, Location(<<66>>, {<<98>>, <<98, 98>>}, <<121>>, {<<65>>, <<67>>})>>,
        <<<<99>>, Location(<<67>>, {}, <<122>>, {})>>,
        <<<<99, 99>>, Location(<<67, 99>>, {<<99, 99>>}, <<120, 32, 121>>, {<<67>>})>> >>,
     loc_aliases_index |-> <<
        <<<<97>>, <<97>>>>,
        <<<<98>>, <<98>>>>,
        <<<<98, 98>>, <<98>>>>,
        <<<<99>>, <<99>>>>,
        <<<<99, 99>>, <<99, 99>>>> >>,
     anomalies |-> <<>>,
     mutants |-> <<>>,
     terms |-> <<>>,
     factions |-> <<>>]

\* Five terms and nothing else; the term named Cx is stored under the key 'c'.
LoreGlossary ==
    [characters |-> <<>>,
     char_aliases_index |-> <<>>,
     locations |-> <<>>,
     loc_aliases_index |-> <<>>,
     anomalies |-> <<>>,
     mutants |-> <<>>,
     terms |-> <<
        <<<<97>>, Term(<<65>>, {}, <<120>>, <<>>)>>,
        <<<<98>>, Term(<<66>>, {<<98>>}, <<121>>, <<122>>)>>,
        <<<<97, 98>>, Term(<<65, 98>>, {}, <<120, 32, 121>>, <<>>)>>,
        <<<<98, 97>>, Term(<<66, 97>>, {}, <<122>>, <<>>)>>,
        <<<<99>>, Term(<<67, 120>>, {<<99>>}, <<120>>, <<>>)>> >>,
     factions |-> <<>>]

AssemblerLores == {LoreTown, LoreGlossary}

(***************************************************************************)
(* Inputs of the calls.                                                    *)
(***************************************************************************)
MaxQueryLen == 5
MaxWordLen == 4
MaxTextLen == 3

\* 'расскажи про стрелка'
StrelokQuery == <<1088, 1072, 1089, 1089, 1082, 1072, 1078, 1080, 32, 1087, 1088, 1086, 32, 1089, 1090, 1088, 1077, 1083, 1082, 1072>>

SpecialQueries ==
    { StrelokQuery,
      <<9>>, <<32, 10, 32>>,          \* whitespace other than ' '
      <<65, 97, 33, 66, 66>>,                        \* upper case and punctuation
      <<97, 97, 32, 1076, 1088, 1091, 1075>>, <<1076, 1088, 1091, 1075, 32, 98, 97>>,           \* a relational trigger word
      <<115, 116, 114, 101, 108, 111, 107, 32, 115, 116, 114, 101, 108, 111, 107>> }

\* Queries over 'a', 'b', 'c' and ' '
Queries == SeqsUpTo({97, 98, 99, 32}, MaxQueryLen) \cup SpecialQueries

\* 'стрелка', 'стрелок' (5 of 7 positions agree), and words of ten letters
\* of which 7 and 6 positions agree
SpecialWords ==
    { <<1089, 1090, 1088, 1077, 1083, 1082, 1072>>, <<1089, 1090, 1088, 1077, 1083, 1086, 1082>>,
      <<97, 97, 97, 97, 97, 97, 97, 97, 97, 97>>, <<97, 97, 97, 97, 97, 97, 97, 98, 98, 98>>, <<97, 97, 97, 97, 97, 97, 98, 98, 98, 98>> }

\* Words over 'a' and 'b'
Words == SeqsUpTo({97, 98}, MaxWordLen) \cup SpecialWords

\* Texts over 'a', 'A', ' ', '!', the stop word U+0430 and U+0130
Texts == SeqsUpTo({97, 65, 32, 33, 1072, 304}, MaxTextLen)

\* The callers that share the engine returned by get_lore_engine().
MaxCallers == 2

Callers == 1..MaxCallers

\* Queries of concurrent callers: 'aa' (a character of LoreFull), 'bb' (a
\* location), 'b' (the general fallback, a context of many words), 'x'
\* (nothing found).
ConcurrentQueries == { <<97, 97>>, <<98, 98>>, <<98>>, <<120>> }

\* max_tokens: the default of line 59 and a value below the word count of
\* most contexts.
MaxTokensValues == {1, 4000}

\* No call of get_ai_response is in progress.
NoAiCall ==
    [pc |-> "idle", message_history |-> <<>>, username |-> "",
     relevant_lore_chunk |-> <<>>, lore_chunks_count |-> 0, model |-> 0,
     requests |-> <<>>, outcomes |-> <<>>, logged |-> <<>>, result |-> <<>>]

\* A chat nobody has written to, and a bot no command was sent to.
NoChat ==
    [pc |-> "idle", maintenance |-> FALSE,
     user_data |-> [age_verified |-> FALSE, chat_history |-> <<>>],
     message_text |-> <<>>, flagged |-> FALSE, history_before |-> <<>>,
     passed |-> <<>>, response |-> <<>>, raised |-> "", replies |-> <<>>,
     handled |-> 0]

NoAdmin ==
    [pc |-> "idle", handler |-> "", user_id |-> 0, text |-> <<>>, users |-> <<>>,
     index |-> 1, message_to_send |-> <<>>, success_count |-> 0, fail_count |-> 0,
     sends |-> <<>>, replies |-> <<>>]

(***************************************************************************)
(* The state machine.                                                      *)
(***************************************************************************)
\* A caller that has no call of retrieve_context in progress.
IdleCall ==
    [pc |-> "idle", query |-> <<>>, max_tokens |-> 0, metadata |-> <<>>,
     entity_type |-> "", matched_entities |-> <<>>, context |-> <<>>,
     score |-> score(0), result |-> <<>>]

Init ==
    /\ lore \in Lores
    /\ query_history = <<>>
    /\ op = "idle"
    /\ input = <<>>
    /\ output = <<>>
    /\ calls = [c \in Callers |-> IdleCall]
    /\ ai = NoAiCall
    /\ chat = NoChat
    /\ admin = NoAdmin

\* retrieve_context remembering the alias it resolved: the lowercased query
\* is added to the character alias index.
RetrieveContextCaching ==
    \E query \in Queries :
        /\ op = "idle"
        /\ op' = "retrieve_context"
        /\ input' = query
        /\ output' = retrieve_context(lore, query)
        /\ lore' = IF output'.metadata.entity_type = "character"
                      /\ ~has_key(lore.char_aliases_index, lower(query))
                   THEN [lore EXCEPT !.char_aliases_index =
                            Append(@, <<lower(query), lore.characters[1][1]>>)]
                   ELSE lore
        /\ UNCHANGED <<query_history, calls, ai, chat, admin>>

\* engine.retrieve_context(query)
RetrieveContext ==
    \E query \in Queries :
        /\ op = "idle"
        /\ op' = "retrieve_context"
        /\ input' = query
        /\ output' = retrieve_context(lore, query)
        /\ UNCHANGED <<lore, query_history, calls, ai, chat, admin>>

\* _fuzzy_match(word, target)
FuzzyMatch ==
    \E word \in Words, target \in Words :
        /\ op = "idle"
        /\ op' = "_fuzzy_match"
        /\ input' = <<word, target>>
        /\ output' = _fuzzy_match(word, target)
        /\ UNCHANGED <<lore, query_history, calls, ai, chat, admin>>

\* get_tokens(text)
GetTokens ==
    \E text \in Texts :
        /\ op = "idle"
        /\ op' = "get_tokens"
        /\ input' = text
        /\ output' = get_tokens(text)
        /\ UNCHANGED <<lore, query_history, calls, ai, chat, admin>>

\* The caller takes the returned value; the next call can be made.
Return ==
    /\ op # "idle"
    /\ op' = "idle"
    /\ input' = <<>>
    /\ output' = <<>>
    /\ UNCHANGED <<lore, query_history, calls, ai, chat, admin>>

Next == RetrieveContext \/ FuzzyMatch \/ GetTokens \/ Return

Spec == Init /\ [][Next]_vars

(***************************************************************************)
(* The engine on the stores that exercise the assemblers' bonuses, caps    *)
(* and lookups.                                                           *)
(***************************************************************************)
AssemblerInit ==
    /\ lore \in AssemblerLores
    /\ query_history = <<>>
    /\ op = "idle"
    /\ input = <<>>
    /\ output = <<>>
    /\ calls = [c \in Callers |-> IdleCall]
    /\ ai = NoAiCall
    /\ chat = NoChat
    /\ admin = NoAdmin

AssemblerNext == RetrieveContext \/ Return

AssemblerSpec == AssemblerInit /\ [][AssemblerNext]_vars

(***************************************************************************)
(* Concurrent callers.  Every caller runs retrieve_context on the engine   *)
(* of get_lore_engine(); a call is the steps of lines 72-111, each reading *)
(* self.lore and the call's own local variables, and the steps of          *)
(* different calls interleave in any order.                                *)
(***************************************************************************)
ConcurrentInit ==
    /\ lore = LoreFull
    /\ query_history = <<>>
    /\ op = "idle"
    /\ input = <<>>
    /\ output = <<>>
    /\ calls = [c \in Callers |-> IdleCall]
    /\ ai = NoAiCall
    /\ chat = NoChat
    /\ admin = NoAdmin

\* Lines 59, 72-79: the call is entered and metadata is initialised.
Enter(c) ==
    \E query \in ConcurrentQueries, max_tokens \in MaxTokensValues :
        /\ calls[c].pc = "idle"
        /\ calls' = [calls EXCEPT ![c] =
               [IdleCall EXCEPT
                   !.pc = "parse",
                   !.query = query,
                   !.max_tokens = max_tokens,
                   !.metadata = [query |-> query,
                                 entity_type |-> "unknown",
                                 found_entities |-> <<>>,
                                 context_sources |-> <<>>,
                                 relevance_score |-> score(0),
                                 token_count |-> 0]]]
        /\ UNCHANGED <<lore, query_history, op, input, output, ai, chat, admin>>

\* The result of _parse_query kept where every call in progress reads it,
\* not in the variables of the call.
ParseShared(c) ==
    /\ calls[c].pc = "parse"
    /\ LET parsed == _parse_query(lore, calls[c].query)
       IN  calls' = [d \in Callers |->
               IF d = c
               THEN [calls[c] EXCEPT
                        !.pc = "assemble",
                        !.entity_type = parsed[1],
                        !.matched_entities = parsed[2],
                        !.metadata = [@ EXCEPT !.entity_type = parsed[1],
                                               !.found_entities = parsed[2]]]
               ELSE IF calls[d].pc = "assemble"
               THEN [calls[d] EXCEPT !.entity_type = parsed[1],
                                     !.matched_entities = parsed[2]]
               ELSE calls[d]]
    /\ UNCHANGED <<lore, query_history, op, input, output, ai, chat, admin>>

\* Lines 82-84.
Parse(c) ==
    /\ calls[c].pc = "parse"
    /\ LET parsed == _parse_query(lore, calls[c].query)
       IN  calls' = [calls EXCEPT ![c] =
               [@ EXCEPT !.pc = "assemble",
                         !.entity_type = parsed[1],
                         !.matched_entities = parsed[2],
                         !.metadata = [@ EXCEPT !.entity_type = parsed[1],
                                                !.found_entities = parsed[2]]]]
    /\ UNCHANGED <<lore, query_history, op, input, output, ai, chat, admin>>

\* Lines 86-104: the strategy chosen by the entity type.
strategy(L, entity_type, matched_entities, query) ==
    IF matched_entities = <<>> THEN _retrieve_general_context(L, query)
    ELSE IF entity_type = "character"
    THEN _retrieve_character_context(L, matched_entities, query)
    ELSE IF entity_type = "location"
    THEN _retrieve_location_context(L, matched_entities, query)
    ELSE IF entity_type = "anomaly"
    THEN _retrieve_anomaly_context(L, matched_entities, query)
    ELSE IF entity_type = "mutant"
    THEN _retrieve_mutant_context(L, matched_entities, query)
    ELSE IF entity_type = "term"
    THEN _retrieve_term_context(L, matched_entities, query)
    ELSE IF entity_type = "faction"
    THEN _retrieve_faction_context(L, matched_entities, query)
    ELSE _retrieve_general_context(L, query)

Assemble(c) ==
    /\ calls[c].pc = "assemble"
    /\ LET assembled == strategy(lore, calls[c].entity_type,
                                 calls[c].matched_entities, calls[c].query)
       IN  calls' = [calls EXCEPT ![c] =
               [@ EXCEPT !.pc = "finish",
                         !.context = assembled[1],
                         !.score = assembled[2]]]
    /\ UNCHANGED <<lore, query_history, op, input, output, ai, chat, admin>>

\* The first n words of a text, joined by single spaces.
first_words(s, n) == join_space(take(split(s), n))

\* The last step cutting the context to max_tokens words.
FinishTruncating(c) ==
    /\ calls[c].pc = "finish"
    /\ LET context == first_words(calls[c].context, calls[c].max_tokens)
       IN  calls' = [calls EXCEPT ![c] =
               [@ EXCEPT !.pc = "done",
                         !.result =
                             [context |-> context,
                              metadata |-> [calls[c].metadata EXCEPT
                                  !.relevance_score = calls[c].score,
                                  !.token_count = word_count(context)]]]]
    /\ UNCHANGED <<lore, query_history, op, input, output, ai, chat, admin>>

\* Lines 106-111.
Finish(c) ==
    /\ calls[c].pc = "finish"
    /\ calls' = [calls EXCEPT ![c] =
           [@ EXCEPT !.pc = "done",
                     !.result =
                         [context |-> calls[c].context,
                          metadata |-> [calls[c].metadata EXCEPT
                              !.relevance_score = calls[c].score,
                              !.token_count = word_count(calls[c].context)]]]]
    /\ UNCHANGED <<lore, query_history, op, input, output, ai, chat, admin>>

\* The caller takes the returned tuple and can call again.
Leave(c) ==
    /\ calls[c].pc = "done"
    /\ calls' = [calls EXCEPT ![c] = IdleCall]
    /\ UNCHANGED <<lore, query_history, op, input, output, ai, chat, admin>>

ConcurrentNext ==
    \E c \in Callers : Enter(c) \/ Parse(c) \/ Assemble(c) \/ Finish(c) \/ Leave(c)

ConcurrentSpec == ConcurrentInit /\ [][ConcurrentNext]_vars

(***************************************************************************)
(* groq_client.py: get_ai_response and get_ai_response_without_lore.       *)
(***************************************************************************)
MODELS_TO_TRY ==
    << "groq/compound", "groq/compound-mini", "llama-3.3-70b-versatile",
       "moonshotai/kimi-k2-instruct", "moonshotai/kimi-k2-instruct-0905",
       "openai/gpt-oss-120b", "openai/gpt-oss-20b", "llama-3.1-8b-instant",
       "meta-llama/llama-4-maverick-17b-128e-instruct", "qwen/qwen3-32b" >>

QWEN == "qwen/qwen3-32b"

\* config.SYSTEM_PROMPT: 'prompt'
SYSTEM_PROMPT == <<112, 114, 111, 109, 112, 116>>

\* The heading of line 89 between the prompt and the lore
LORE_HEADING == <<10, 10, 1042, 1054, 1057, 1055, 1054, 1052, 1048, 1053, 1040, 1053, 1048, 1045, 32, 1048, 1047, 32, 1058, 1042, 1054, 1045, 1049, 32, 1048, 1057, 1058, 1054, 1056, 1048, 1048, 32, 1044, 1051, 1071, 32, 1050, 1054, 1053, 1058, 1045, 1050, 1057, 1058, 1040, 58, 10>>

THINK_OPEN == <<60, 116, 104, 105, 110, 107, 62>>
THINK_CLOSE == <<60, 47, 116, 104, 105, 110, 107, 62>>

\* 'Ошибка. Ответ слишком большой.'
TOO_BIG_MESSAGE == <<1054, 1096, 1080, 1073, 1082, 1072, 46, 32, 1054, 1090, 1074, 1077, 1090, 32, 1089, 1083, 1080, 1096, 1082, 1086, 1084, 32, 1073, 1086, 1083, 1100, 1096, 1086, 1081, 46>>

\* The messages of the results 'error' and 'limit_exceeded'
ERROR_MESSAGE == <<1061, 1084, 44, 32, 1095, 1105, 1090, 32, 1091, 32, 1084, 1077, 1085, 1103, 32, 1082, 1072, 1082, 1080, 1077, 45, 1090, 1086, 32, 1085, 1077, 1087, 1086, 1083, 1072, 1076, 1082, 1080, 46, 46, 46, 32, 1053, 1072, 1087, 1080, 1096, 1080, 32, 1087, 1086, 1090, 1086, 1084, 46>>

LIMIT_MESSAGE == <<1052, 1083, 1103, 44, 32, 1103, 32, 1079, 1072, 1084, 1072, 1085, 1072, 1083, 1089, 1103, 32, 1089, 32, 1090, 1086, 1073, 1086, 1081, 32, 1073, 1086, 1083, 1090, 1072, 1090, 1100, 46, 32, 1055, 1088, 1080, 1093, 1086, 1076, 1080, 32, 1074, 32, 1076, 1088, 1091, 1075, 1086, 1081, 32, 1088, 1072, 1079, 46, 32, 40, 1090, 1086, 1082, 1077, 1085, 1099, 32, 1079, 1072, 1082, 1086, 1085, 1095, 1080, 1083, 1080, 1089, 1100, 44, 32, 1085, 1072, 1087, 1080, 1096, 1080, 32, 1095, 1077, 1088, 1077, 1079, 32, 1085, 1077, 1089, 1082, 1086, 1083, 1100, 1082, 1086, 32, 1095, 1072, 1089, 1086, 1074, 41>>

\* The marks of an HTTP 413 error in str(e)
ERROR_CODE_413 == <<69, 114, 114, 111, 114, 32, 99, 111, 100, 101, 58, 32, 52, 49, 51>>

TOO_LARGE == <<82, 101, 113, 117, 101, 115, 116, 32, 69, 110, 116, 105, 116, 121, 32, 84, 111, 111, 32, 76, 97, 114, 103, 101>>

\* str.strip()
strip(s) ==
    LET keep == {i \in 1..Len(s) : ~isspace(s[i])}
    IN  IF keep = {} THEN <<>>
        ELSE SubSeq(s, CHOOSE i \in keep : \A j \in keep : i <= j,
                       CHOOSE i \in keep : \A j \in keep : i >= j)

\* str.find(needle, from), positions counted from 1; 0 when absent
find(needle, hay, from) ==
    LET hits == {i \in from..(Len(hay) - Len(needle) + 1) :
                    SubSeq(hay, i, i + Len(needle) - 1) = needle}
    IN  IF hits = {} THEN 0 ELSE CHOOSE i \in hits : \A j \in hits : i <= j

\* re.sub(r"<think>.*?</think>", "", text, flags=re.DOTALL)
RECURSIVE remove_think_blocks(_)
remove_think_blocks(text) ==
    LET open == find(THINK_OPEN, text, 1)
        close == IF open = 0 THEN 0 ELSE find(THINK_CLOSE, text, open + Len(THINK_OPEN))
    IN  IF close = 0 THEN text
        ELSE SubSeq(text, 1, open - 1)
             \o remove_think_blocks(SubSeq(text, close + Len(THINK_CLOSE), Len(text)))

_strip_think_tags(text, model_name) ==
    IF find(THINK_OPEN, text, 1) # 0
    THEN (IF model_name = QWEN THEN strip(remove_think_blocks(text)) ELSE TOO_BIG_MESSAGE)
    ELSE strip(text)

\* Lines 589-596 of lore_search.py: the context and the number of entities
\* found, from what retrieve_context returned.
context_and_entity_count(retrieved) ==
    <<retrieved.context, Len(retrieved.metadata.found_entities)>>

\* retrieve_relevant_lore(user_query)
retrieve_relevant_lore(L, query) ==
    context_and_entity_count(retrieve_context(L, query))

\* Line 81: the last message of the history
user_query(message_history) == message_history[Len(message_history)].content

\* The arguments of client.chat.completions.create
completion_request(model, system_prompt, message_history) ==
    [model |-> model,
     messages |-> <<[role |-> "system", content |-> system_prompt]>> \o message_history,
     temperature |-> [num |-> 1, den |-> 2],
     max_tokens |-> IF model = QWEN THEN <<>> ELSE <<150>>]

\* Lines 84-91: the system prompt, with the lore found for the query
dynamic_system_prompt(relevant_lore_chunk) ==
    IF relevant_lore_chunk # <<>>
    THEN SYSTEM_PROMPT \o LORE_HEADING \o relevant_lore_chunk
    ELSE SYSTEM_PROMPT

error_result == [message |-> ERROR_MESSAGE, model |-> "error"]

limit_exceeded_result == [message |-> LIMIT_MESSAGE, model |-> "limit_exceeded"]

\* What the API answers to one request: a response, whose content and usage
\* are Optional, or an exception with its str().
ApiResponses ==
    { [kind |-> "response", content |-> <<<<111, 107>>>>, usage |-> <<7>>],
      [kind |-> "response", content |-> <<<<32, 32>>>>, usage |-> <<7>>],
      [kind |-> "response", content |-> <<<<60, 116, 104, 105, 110, 107, 62, 97, 60, 47, 116, 104, 105, 110, 107, 62, 111, 107>>>>, usage |-> <<7>>],
      [kind |-> "response", content |-> <<<<60, 116, 104, 105, 110, 107, 62, 97, 60, 47, 116, 104, 105, 110, 107, 62>>>>, usage |-> <<7>>],
      [kind |-> "response", content |-> <<>>, usage |-> <<7>>],
      [kind |-> "response", content |-> <<<<111, 107>>>>, usage |-> <<>>] }

ApiExceptions ==
    { [kind |-> "exception", type |-> "RateLimitError", str |-> <<69, 114, 114, 111, 114, 32, 99, 111, 100, 101, 58, 32, 52, 50, 57>>],
      [kind |-> "exception", type |-> "APIStatusError", str |-> ERROR_CODE_413 \o <<32, 45, 32>> \o TOO_LARGE],
      [kind |-> "exception", type |-> "APIStatusError", str |-> ERROR_CODE_413],
      [kind |-> "exception", type |-> "APITimeoutError", str |-> <<82, 101, 113, 117, 101, 115, 116, 32, 116, 105, 109, 101, 100, 32, 111, 117, 116, 46>>] }

ApiOutcomes == ApiResponses \cup ApiExceptions

\* database.log_usage_to_db(username, user_message, usage, ai_response,
\* lore_chunks_count, model_name): the call is put on record.
log_usage_to_db(call, usage, ai_message, lore_chunks_count, model) ==
    [call EXCEPT !.logged = Append(@, [username |-> call.username,
                                       user_message |-> user_query(call.message_history),
                                       usage |-> usage,
                                       ai_response |-> ai_message,
                                       lore_chunks_count |-> lore_chunks_count,
                                       model_name |-> model])]

\* Lines 106-118 with the usage logged before total_tokens is read from it.
answered_logging_first(call, model, response, lore_chunks_count) ==
    IF response.content = <<>>
    THEN [call EXCEPT !.pc = "done", !.result = error_result]
    ELSE LET ai_message == _strip_think_tags(response.content[1], model)
             logged == log_usage_to_db(call, response.usage, ai_message,
                                       lore_chunks_count, model)
         IN  IF response.usage = <<>>
             THEN [logged EXCEPT !.pc = "done", !.result = error_result]
             ELSE [logged EXCEPT
                      !.pc = "done",
                      !.result = [message |-> ai_message, model |-> model,
                                  tokens |-> response.usage[1]]]

\* Lines 106-118 and 155-163: the response is read, the usage is logged and
\* the result is built.  A content or a usage of None raises (TypeError at
\* line 57, AttributeError at line 112) before anything is logged, and the
\* handler of line 122 or 164 turns it into the 'error' result.
answered(call, model, response, lore_chunks_count) ==
    IF response.content = <<>> \/ response.usage = <<>>
    THEN [call EXCEPT !.pc = "done", !.result = error_result]
    ELSE LET ai_message == _strip_think_tags(response.content[1], model)
             logged == log_usage_to_db(call, response.usage, ai_message,
                                       lore_chunks_count, model)
         IN  [logged EXCEPT
                 !.pc = "done",
                 !.result = [message |-> ai_message, model |-> model,
                             tokens |-> response.usage[1]]]

\* Lines 84-93: with the lore that was found, the loop over the models
\* begins.
first_request(message_history, username, found) ==
    [NoAiCall EXCEPT
        !.pc = "request",
        !.message_history = message_history,
        !.username = username,
        !.relevant_lore_chunk = found[1],
        !.lore_chunks_count = found[2],
        !.model = 1]

\* Lines 78-93 of get_ai_response: the lore for the last message is looked
\* up and the loop over the models begins.
begin_get_ai_response(L, message_history, username) ==
    first_request(message_history, username,
                  retrieve_relevant_lore(L, user_query(message_history)))

\* What a request came to: 'response', or the type of the exception
outcome_name(outcome) == IF outcome.kind = "response" THEN "response" ELSE outcome.type

\* The call after client.chat.completions.create was awaited with a system
\* prompt: the request and its outcome are on record.
requested(call, system_prompt, outcome) ==
    [call EXCEPT
        !.requests = Append(@, completion_request(MODELS_TO_TRY[call.model], system_prompt,
                                                  call.message_history)),
        !.outcomes = Append(@, <<MODELS_TO_TRY[call.model], outcome>>)]

\* The loop of lines 93-129 going on to the next model whatever was raised.
request_next_model_on_any_error(call, outcome) ==
    LET model == MODELS_TO_TRY[call.model]
        sent == requested(call, dynamic_system_prompt(call.relevant_lore_chunk), outcome)
    IN  IF outcome.kind = "response"
        THEN answered(sent, model, outcome, call.lore_chunks_count)
        ELSE IF call.model < Len(MODELS_TO_TRY)
        THEN [sent EXCEPT !.model = @ + 1]
        ELSE [sent EXCEPT !.pc = "done", !.result = limit_exceeded_result]

\* One pass of the loop of lines 93-129: a request to MODELS_TO_TRY[model]
\* and what follows from its outcome.
request(call, outcome) ==
    LET model == MODELS_TO_TRY[call.model]
        sent == requested(call, dynamic_system_prompt(call.relevant_lore_chunk), outcome)
    IN  IF outcome.kind = "response"
        THEN answered(sent, model, outcome, call.lore_chunks_count)
        ELSE IF outcome.type = "RateLimitError"
        THEN (IF call.model < Len(MODELS_TO_TRY)
              THEN [sent EXCEPT !.model = @ + 1]
              ELSE [sent EXCEPT !.pc = "done", !.result = limit_exceeded_result])
        ELSE IF IsSubstring(ERROR_CODE_413, outcome.str) /\ IsSubstring(TOO_LARGE, outcome.str)
        THEN [sent EXCEPT !.pc = "without_lore"]
        ELSE [sent EXCEPT !.pc = "done", !.result = error_result]

\* get_ai_response_without_lore sending the prompt with the lore again.
request_without_lore_keeping_lore(call, outcome) ==
    LET model == MODELS_TO_TRY[call.model]
        sent == requested(call, dynamic_system_prompt(call.relevant_lore_chunk), outcome)
    IN  IF outcome.kind = "response"
        THEN answered(sent, model, outcome, 0)
        ELSE [sent EXCEPT !.pc = "done", !.result = error_result]

\* get_ai_response_without_lore(message_history, model, username)
request_without_lore(call, outcome) ==
    LET model == MODELS_TO_TRY[call.model]
        sent == requested(call, SYSTEM_PROMPT, outcome)
    IN  IF outcome.kind = "response"
        THEN answered(sent, model, outcome, 0)
        ELSE [sent EXCEPT !.pc = "done", !.result = error_result]

\* The calls of get_ai_response: message histories that end with a message
\* of the user, about a character of LoreFull, a location, and nothing.
AiHistories ==
    { <<[role |-> "user", content |-> <<97, 97>>]>>,
      <<[role |-> "user", content |-> <<120>>],
        [role |-> "assistant", content |-> <<111, 107>>],
        [role |-> "user", content |-> <<98, 98>>]>>,
      <<[role |-> "user", content |-> <<120>>]>> }

Usernames == {"Ann", "42"}

AiInit ==
    /\ lore = LoreFull
    /\ query_history = <<>>
    /\ op = "idle"
    /\ input = <<>>
    /\ output = <<>>
    /\ calls = [c \in Callers |-> IdleCall]
    /\ ai = NoAiCall
    /\ chat = NoChat
    /\ admin = NoAdmin

\* await get_ai_response(message_history, username), up to the first request
GetAiResponse ==
    \E message_history \in AiHistories, username \in Usernames :
        /\ ai.pc = "idle"
        /\ ai' = begin_get_ai_response(lore, message_history, username)
        /\ UNCHANGED <<lore, query_history, op, input, output, calls, chat, admin>>

\* await client.chat.completions.create(...) in the loop over the models
Request ==
    \E outcome \in ApiOutcomes :
        /\ ai.pc = "request"
        /\ ai' = request(ai, outcome)
        /\ UNCHANGED <<lore, query_history, op, input, output, calls, chat, admin>>

\* await client.chat.completions.create(...) in get_ai_response_without_lore
RequestWithoutLore ==
    \E outcome \in ApiOutcomes :
        /\ ai.pc = "without_lore"
        /\ ai' = request_without_lore(ai, outcome)
        /\ UNCHANGED <<lore, query_history, op, input, output, calls, chat, admin>>

\* The caller takes the result.
ReturnResult ==
    /\ ai.pc = "done"
    /\ chat.pc = "idle"
    /\ ai' = NoAiCall
    /\ UNCHANGED <<lore, query_history, op, input, output, calls, chat, admin>>

AiNext == GetAiResponse \/ Request \/ RequestWithoutLore \/ ReturnResult

AiSpec == AiInit /\ [][AiNext]_vars

(***************************************************************************)
(* echo.py: echo_logic, the handler of a text message in a private chat.   *)
(***************************************************************************)
\* Line 49: '[РУ]Бот на обновлении. Напиши попозже!'
MAINTENANCE_REPLY == <<91, 1056, 1059, 93, 1041, 1086, 1090, 32, 1085, 1072, 32, 1086, 1073, 1085, 1086, 1074, 1083, 1077, 1085, 1080, 1080, 46, 32, 1053, 1072, 1087, 1080, 1096, 1080, 32, 1087, 1086, 1087, 1086, 1079, 1078, 1077, 33>>

\* Line 57: 'Сначала подтверди свой возраст, нажав /start.'
AGE_REPLY == <<1057, 1085, 1072, 1095, 1072, 1083, 1072, 32, 1087, 1086, 1076, 1090, 1074, 1077, 1088, 1076, 1080, 32, 1089, 1074, 1086, 1081, 32, 1074, 1086, 1079, 1088, 1072, 1089, 1090, 44, 32, 1085, 1072, 1078, 1072, 1074, 32, 47, 115, 116, 97, 114, 116, 46>>

\* Line 63: 'Кажется, это сообщение похоже на спам. Попробуй написать что-нибудь другое.'
SPAM_REPLY == <<1050, 1072, 1078, 1077, 1090, 1089, 1103, 44, 32, 1101, 1090, 1086, 32, 1089, 1086, 1086, 1073, 1097, 1077, 1085, 1080, 1077, 32, 1087, 1086, 1093, 1086, 1078, 1077, 32, 1085, 1072, 32, 1089, 1087, 1072, 1084, 46, 32, 1055, 1086, 1087, 1088, 1086, 1073, 1091, 1081, 32, 1085, 1072, 1087, 1080, 1089, 1072, 1090, 1100, 32, 1095, 1090, 1086, 45, 1085, 1080, 1073, 1091, 1076, 1100, 32, 1076, 1088, 1091, 1075, 1086, 1077, 46>>

\* Line 68: 'И чё это? Напиши подробнее, ёпрст'
SHORT_REPLY == <<1048, 32, 1095, 1105, 32, 1101, 1090, 1086, 63, 32, 1053, 1072, 1087, 1080, 1096, 1080, 32, 1087, 1086, 1076, 1088, 1086, 1073, 1085, 1077, 1077, 44, 32, 1105, 1087, 1088, 1089, 1090>>

\* Line 75: 'Это не мой базар. Поговорим о чём-нибудь другом.'
FILTER_REPLY == <<1069, 1090, 1086, 32, 1085, 1077, 32, 1084, 1086, 1081, 32, 1073, 1072, 1079, 1072, 1088, 46, 32, 1055, 1086, 1075, 1086, 1074, 1086, 1088, 1080, 1084, 32, 1086, 32, 1095, 1105, 1084, 45, 1085, 1080, 1073, 1091, 1076, 1100, 32, 1076, 1088, 1091, 1075, 1086, 1084, 46>>

\* Line 124: 'Спроси лучш чё-нибудь другое.'
EMPTY_REPLY == <<1057, 1087, 1088, 1086, 1089, 1080, 32, 1083, 1091, 1095, 1096, 32, 1095, 1105, 45, 1085, 1080, 1073, 1091, 1076, 1100, 32, 1076, 1088, 1091, 1075, 1086, 1077, 46>>

\* Line 127: 'У меня какие-то проблемы с ИИ сейчас — попробуй позже.'
PROBLEM_REPLY == <<1059, 32, 1084, 1077, 1085, 1103, 32, 1082, 1072, 1082, 1080, 1077, 45, 1090, 1086, 32, 1087, 1088, 1086, 1073, 1083, 1077, 1084, 1099, 32, 1089, 32, 1048, 1048, 32, 1089, 1077, 1081, 1095, 1072, 1089, 32, 8212, 32, 1087, 1086, 1087, 1088, 1086, 1073, 1091, 1081, 32, 1087, 1086, 1079, 1078, 1077, 46>>

\* The text that filter_and_validate_response puts in the place of a flagged
\* answer: 'no'
FILTERED_ANSWER == <<110, 111>>

\* The name given to get_ai_response: user.full_name or str(user.id)
FULL_NAME == "Ann"

\* is_spam(text)
is_spam(text) ==
    LET length == Len(text)
        alnum_count == Cardinality({i \in 1..length : isalnum(text[i])})
        unique_chars == Cardinality({text[i] : i \in 1..length})
    IN  IF length < 150 THEN FALSE
        ELSE \* alnum_count / length < 0.4
             alnum_count * 5 < 2 * length \/ (unique_chars < 15 /\ length > 200)

\* chat_history[-6:]
last_six(chat_history) ==
    SubSeq(chat_history, Max(1, Len(chat_history) - 5), Len(chat_history))

\* await update.message.reply_text(text)
reply_text(c, text) == [c EXCEPT !.replies = Append(@, text)]

\* Lines 43-46: a call of echo_logic begins with a message.  flagged is what
\* filter_and_validate_response says of the message when it is asked.
received(c, message_text, flagged) ==
    [c EXCEPT !.message_text = message_text,
              !.flagged = flagged,
              !.history_before = c.user_data.chat_history,
              !.passed = <<>>,
              !.response = <<>>,
              !.raised = "",
              !.replies = <<>>,
              !.handled = @ + 1]

\* Lines 80-92: the message joins the history, and the last six entries are
\* stored.
remember(c) ==
    [c EXCEPT !.user_data.chat_history =
                  last_six(Append(@, [role |-> "user", content |-> c.message_text]))]

\* Lines 43-92 with the history stored before the checks are made.
begin_echo_logic_storing_first(c, message_text, flagged) ==
    LET call == remember(received(c, message_text, flagged))
    IN  IF call.maintenance THEN reply_text(call, MAINTENANCE_REPLY)
        ELSE IF ~call.user_data.age_verified THEN reply_text(call, AGE_REPLY)
        ELSE IF is_spam(message_text) THEN reply_text(call, SPAM_REPLY)
        ELSE IF Len(strip(message_text)) <= 2 THEN reply_text(call, SHORT_REPLY)
        ELSE IF flagged THEN reply_text(call, FILTER_REPLY)
        ELSE [call EXCEPT !.pc = "typing"]

\* Lines 43-92 without the cut of line 91.
begin_echo_logic_keeping_all(c, message_text, flagged) ==
    LET call == received(c, message_text, flagged)
    IN  IF call.maintenance THEN reply_text(call, MAINTENANCE_REPLY)
        ELSE IF ~call.user_data.age_verified THEN reply_text(call, AGE_REPLY)
        ELSE IF is_spam(message_text) THEN reply_text(call, SPAM_REPLY)
        ELSE IF Len(strip(message_text)) <= 2 THEN reply_text(call, SHORT_REPLY)
        ELSE IF flagged THEN reply_text(call, FILTER_REPLY)
        ELSE [call EXCEPT !.pc = "typing",
                          !.user_data.chat_history =
                              Append(@, [role |-> "user", content |-> message_text])]

\* Lines 43-92 of echo_logic: the checks, each with its refusal, and then
\* the history.
begin_echo_logic(c, message_text, flagged) ==
    LET call == received(c, message_text, flagged)
    IN  IF call.maintenance THEN reply_text(call, MAINTENANCE_REPLY)
        ELSE IF ~call.user_data.age_verified THEN reply_text(call, AGE_REPLY)
        ELSE IF is_spam(message_text) THEN reply_text(call, SPAM_REPLY)
        ELSE IF Len(strip(message_text)) <= 2 THEN reply_text(call, SHORT_REPLY)
        ELSE IF flagged THEN reply_text(call, FILTER_REPLY)
        ELSE [remember(call) EXCEPT !.pc = "typing"]

\* Line 96 raised: the handler of lines 125-127 replies.
typing_failed(c) ==
    [reply_text(c, PROBLEM_REPLY) EXCEPT !.pc = "idle", !.raised = "send_chat_action"]

\* Line 100: get_ai_response is awaited with the stored history.
asked(c) == [c EXCEPT !.pc = "ai", !.passed = <<c.user_data.chat_history>>]

\* What filter_and_validate_response(ai_message) can return
FilterOutcomes(ai_message) == {<<ai_message, FALSE>>, <<FILTERED_ANSWER, TRUE>>}

\* Lines 102-127 with the entry of the assistant appended for every answer.
respond_storing_every_answer(c, response, filtered, raised) ==
    LET got == [c EXCEPT !.pc = "idle", !.response = <<response>>]
    IN  IF raised
        THEN [reply_text(got, PROBLEM_REPLY) EXCEPT !.raised = "reply_text"]
        ELSE IF response.message # <<>>
        THEN [reply_text(got, filtered[1]) EXCEPT
                 !.user_data.chat_history =
                     Append(@, [role |-> "assistant", content |-> filtered[1]])]
        ELSE reply_text(got, EMPTY_REPLY)

\* Lines 102-127: the answer is filtered and sent, and stored when a model
\* gave it; raised says that reply_text of line 115 or 124 raised, which the
\* handler of lines 125-127 answers.
respond(c, response, filtered, raised) ==
    LET got == [c EXCEPT !.pc = "idle", !.response = <<response>>]
    IN  IF raised
        THEN [reply_text(got, PROBLEM_REPLY) EXCEPT !.raised = "reply_text"]
        ELSE IF response.message # <<>>
        THEN (IF response.model \notin {"error", "limit_exceeded"}
              THEN [reply_text(got, filtered[1]) EXCEPT
                       !.user_data.chat_history =
                           Append(@, [role |-> "assistant", content |-> filtered[1]])]
              ELSE reply_text(got, filtered[1]))
        ELSE reply_text(got, EMPTY_REPLY)

\* The longest sequence of messages of one chat
MaxMessages == 4

\* c repeated n times
repeated(c, n) == [i \in 1..n |-> c]

\* Messages: 'hi' and '  a ' are too short; 150 times '!', 59 times 'a'
\* with 91 times '!', and 201 times 'a' are spam; 'aa b' asks about a
\* character of LoreFull.
ChatMessages ==
    { <<104, 105>>, <<32, 32, 97, 32>>,
      repeated(33, 150), repeated(97, 59) \o repeated(33, 91), repeated(97, 201),
      <<97, 97, 32, 98>> }

ChatInit ==
    /\ lore = LoreFull
    /\ query_history = <<>>
    /\ op = "idle"
    /\ input = <<>>
    /\ output = <<>>
    /\ calls = [c \in Callers |-> IdleCall]
    /\ ai = NoAiCall
    /\ \E maintenance \in BOOLEAN, age_verified \in BOOLEAN :
           chat = [NoChat EXCEPT !.maintenance = maintenance,
                                 !.user_data.age_verified = age_verified]
    /\ admin = NoAdmin

\* echo_logic(update, context), up to the first await of the try block
Receive ==
    \E message_text \in ChatMessages, flagged \in BOOLEAN :
        /\ chat.pc = "idle"
        /\ chat.handled < MaxMessages
        /\ chat' = begin_echo_logic(chat, message_text, flagged)
        /\ UNCHANGED <<lore, query_history, op, input, output, calls, ai, admin>>

\* await context.bot.send_chat_action(...) raised
TypingFailed ==
    /\ chat.pc = "typing"
    /\ chat' = typing_failed(chat)
    /\ UNCHANGED <<lore, query_history, op, input, output, calls, ai, admin>>

\* await context.bot.send_chat_action(...) returned: get_ai_response is
\* awaited
Ask ==
    /\ chat.pc = "typing"
    /\ chat' = asked(chat)
    /\ ai' = begin_get_ai_response(lore, chat.user_data.chat_history, FULL_NAME)
    /\ UNCHANGED <<lore, query_history, op, input, output, calls, admin>>

\* get_ai_response returned: lines 102-127
Respond ==
    /\ chat.pc = "ai"
    /\ ai.pc = "done"
    /\ \E filtered \in FilterOutcomes(ai.result.message), raised \in BOOLEAN :
           chat' = respond(chat, ai.result, filtered, raised)
    /\ ai' = NoAiCall
    /\ UNCHANGED <<lore, query_history, op, input, output, calls, admin>>

ChatNext == Receive \/ TypingFailed \/ Ask \/ Request \/ RequestWithoutLore \/ Respond

ChatSpec == ChatInit /\ [][ChatNext]_vars

(***************************************************************************)
(* The handlers of the administrator: getdb_command.py, helpadm_command.py,*)
(* stats_command.py, admin_commands.py and globalmessage_command.py.  A    *)
(* reply is recorded by its kind: 'only_admin' is the refusal 'Эта команда *)
(* доступна только админу.', every other kind is output for the           *)
(* administrator.                                                          *)
(***************************************************************************)
\* config.ADMIN_ID
ADMIN_ID == 1

\* The users who send updates: the administrator and another user
UserIds == {ADMIN_ID, 2}

\* Line 38 of globalmessage_command.py: '/globalmessage'
COMMAND == <<47, 103, 108, 111, 98, 97, 108, 109, 101, 115, 115, 97, 103, 101>>

\* An update of user_id reaches a handler.
update(handler, user_id) == [NoAdmin EXCEPT !.handler = handler, !.user_id = user_id]

\* await update.message.reply_text / reply_document / query.edit_message_text
replied(call, reply) == [call EXCEPT !.replies = Append(@, reply)]

\* getdb_command(update, context): exists is os.path.exists(DB_NAME), raised
\* says that open or reply_document raised.
getdb_command(user_id, exists, raised) ==
    LET call == update("getdb_command", user_id)
    IN  IF user_id # ADMIN_ID THEN call
        ELSE IF ~exists THEN replied(call, [kind |-> "db_missing"])
        ELSE IF raised THEN replied(call, [kind |-> "db_error"])
        ELSE replied(call, [kind |-> "db_file"])

\* helpadm_command(update, context)
helpadm_command(user_id) ==
    LET call == update("helpadm_command", user_id)
    IN  IF user_id # ADMIN_ID THEN call
        ELSE replied(call, [kind |-> "admin_commands"])

\* stats_command(update, context) of stats_command.py
stats_command(user_id) ==
    LET call == update("stats_command", user_id)
    IN  IF user_id # ADMIN_ID THEN replied(call, [kind |-> "only_admin"])
        ELSE replied(call, [kind |-> "stats_menu"])

\* stats_command(update, context) of admin_commands.py: records is what
\* get_last_n_records(5) returns, raised says that it or the reply raised.
last_records_command(user_id, records, raised) ==
    LET call == update("admin_commands.stats_command", user_id)
    IN  IF user_id # ADMIN_ID THEN call
        ELSE IF raised THEN replied(call, [kind |-> "records_error"])
        ELSE IF records = <<>> THEN replied(call, [kind |-> "no_records"])
        ELSE replied(call, [kind |-> "last_records", records |-> records])

\* query.data.split('_')[1]
date_str(data) ==
    LET marks == {i \in 1..Len(data) : data[i] = 95}
        first == CHOOSE i \in marks : \A j \in marks : i <= j
        later == {i \in marks : i > first}
        second == IF later = {} THEN Len(data) + 1
                  ELSE CHOOSE i \in later : \A j \in later : i <= j
    IN  SubSeq(data, first + 1, second - 1)

\* sum(s[field] for s in stats)
RECURSIVE sum_requests(_)
sum_requests(stats) ==
    IF stats = <<>> THEN 0 ELSE Head(stats).requests + sum_requests(Tail(stats))

RECURSIVE sum_total_tokens(_)
sum_total_tokens(stats) ==
    IF stats = <<>> THEN 0 ELSE Head(stats).total_tokens + sum_total_tokens(Tail(stats))

\* stats_callback(update, context): stats is what get_stats_for_date returns.
stats_callback(user_id, data, stats) ==
    LET call == update("stats_callback", user_id)
    IN  IF stats = <<>>
        THEN replied(call, [kind |-> "no_stats", date |-> date_str(data)])
        ELSE replied(call, [kind |-> "stats", date |-> date_str(data),
                            total_requests |-> sum_requests(stats),
                            total_tokens |-> sum_total_tokens(stats),
                            models |-> stats])

\* Lines 19-51 of globalmessage_command: text is update.message.text, whose
\* words after the first are context.args; users is what get_all_users
\* returns.
begin_globalmessage(user_id, text, users) ==
    LET call == [update("globalmessage_command", user_id) EXCEPT !.text = text]
    IN  IF user_id # ADMIN_ID THEN replied(call, [kind |-> "only_admin"])
        ELSE IF Tail(split(text)) = <<>> THEN replied(call, [kind |-> "usage"])
        ELSE IF users = <<>> THEN replied(call, [kind |-> "no_users"])
        ELSE [replied(call, [kind |-> "started", users |-> Len(users)]) EXCEPT
                 !.pc = "sending",
                 !.users = users,
                 !.message_to_send = strip(SubSeq(text, Len(COMMAND) + 1, Len(text)))]

\* What context.bot.send_message comes to: sent, or one of the errors
SendOutcomes == {"sent", "Forbidden", "BadRequest", "TelegramError"}

\* The send to users[index], on record with its outcome
sent_to(call, tg_id, outcome) ==
    [call EXCEPT !.index = @ + 1,
                 !.sends = Append(@, [chat_id |-> tg_id, text |-> call.message_to_send,
                                      outcome |-> outcome])]

\* The loop of lines 53-77 left at the first TelegramError that is neither
\* Forbidden nor BadRequest.
send_message_until_error(call, outcome) ==
    LET tg_id == call.users[call.index].tg_id
    IN  IF tg_id = <<>> THEN [call EXCEPT !.index = @ + 1]
        ELSE IF outcome = "sent"
        THEN [sent_to(call, tg_id[1], outcome) EXCEPT !.success_count = @ + 1]
        ELSE IF outcome = "TelegramError"
        THEN [sent_to(call, tg_id[1], outcome) EXCEPT !.fail_count = @ + 1,
                                                      !.index = Len(call.users) + 1]
        ELSE [sent_to(call, tg_id[1], outcome) EXCEPT !.fail_count = @ + 1]

\* One pass of the loop of lines 53-77
send_message(call, outcome) ==
    LET tg_id == call.users[call.index].tg_id
    IN  IF tg_id = <<>> THEN [call EXCEPT !.index = @ + 1]
        ELSE IF outcome = "sent"
        THEN [sent_to(call, tg_id[1], outcome) EXCEPT !.success_count = @ + 1]
        ELSE [sent_to(call, tg_id[1], outcome) EXCEPT !.fail_count = @ + 1]

\* Lines 79-81: the report
report(call) ==
    [replied(call, [kind |-> "report", success_count |-> call.success_count,
                    fail_count |-> call.fail_count])
        EXCEPT !.pc = "idle"]

\* The longest list of users
MaxUsers == 3

\* Records of get_all_users: without a tg_id, and of two users
UserRecords == {[tg_id |-> <<>>], [tg_id |-> <<11>>], [tg_id |-> <<12>>]}

UserLists == SeqsUpTo(UserRecords, MaxUsers)

\* '/globalmessage' alone, and with the text 'hi' and blanks around it
GlobalMessageTexts == {COMMAND, COMMAND \o <<32, 32, 104, 105, 32>>}

\* Callback data that match '^stats_': 'stats_1' and 'stats_1_2'
StatsCallbackData == {<<115, 116, 97, 116, 115, 95, 49>>, <<115, 116, 97, 116, 115, 95, 49, 95, 50>>}

\* What get_stats_for_date returns: nothing, or the rows of two models
StatsRows ==
    { <<>>,
      <<[model_name |-> "groq/compound", requests |-> 2, total_tokens |-> 14],
        [model_name |-> "qwen/qwen3-32b", requests |-> 1, total_tokens |-> 7]>> }

AdminInit ==
    /\ lore = LoreFull
    /\ query_history = <<>>
    /\ op = "idle"
    /\ input = <<>>
    /\ output = <<>>
    /\ calls = [c \in Callers |-> IdleCall]
    /\ ai = NoAiCall
    /\ chat = NoChat
    /\ admin = NoAdmin

\* /getdb
GetDb ==
    \E user_id \in UserIds, exists \in BOOLEAN, raised \in BOOLEAN :
        /\ admin.pc = "idle"
        /\ admin' = getdb_command(user_id, exists, raised)
        /\ UNCHANGED <<lore, query_history, op, input, output, calls, ai, chat>>

\* /helpadm
HelpAdm ==
    \E user_id \in UserIds :
        /\ admin.pc = "idle"
        /\ admin' = helpadm_command(user_id)
        /\ UNCHANGED <<lore, query_history, op, input, output, calls, ai, chat>>

\* /stats, handled by stats_command.py
Stats ==
    \E user_id \in UserIds :
        /\ admin.pc = "idle"
        /\ admin' = stats_command(user_id)
        /\ UNCHANGED <<lore, query_history, op, input, output, calls, ai, chat>>

\* /stats, handled by admin_commands.py
LastRecords ==
    \E user_id \in UserIds, records \in {<<>>, <<"record">>}, raised \in BOOLEAN :
        /\ admin.pc = "idle"
        /\ admin' = last_records_command(user_id, records, raised)
        /\ UNCHANGED <<lore, query_history, op, input, output, calls, ai, chat>>

\* A callback query whose data match '^stats_'
StatsCallback ==
    \E user_id \in UserIds, data \in StatsCallbackData, stats \in StatsRows :
        /\ admin.pc = "idle"
        /\ admin' = stats_callback(user_id, data, stats)
        /\ UNCHANGED <<lore, query_history, op, input, output, calls, ai, chat>>

\* /globalmessage, up to the loop
GlobalMessage ==
    \E user_id \in UserIds, text \in GlobalMessageTexts, users \in UserLists :
        /\ admin.pc = "idle"
        /\ admin' = begin_globalmessage(user_id, text, users)
        /\ UNCHANGED <<lore, query_history, op, input, output, calls, ai, chat>>

\* One pass of the loop of /globalmessage
SendMessage ==
    \E outcome \in SendOutcomes :
        /\ admin.pc = "sending"
        /\ admin.index <= Len(admin.users)
        /\ admin' = send_message(admin, outcome)
        /\ UNCHANGED <<lore, query_history, op, input, output, calls, ai, chat>>

\* The loop of /globalmessage is over
Report ==
    /\ admin.pc = "sending"
    /\ admin.index > Len(admin.users)
    /\ admin' = report(admin)
    /\ UNCHANGED <<lore, query_history, op, input, output, calls, ai, chat>>

AdminNext ==
    \/ GetDb \/ HelpAdm \/ Stats \/ LastRecords \/ StatsCallback
    \/ GlobalMessage \/ SendMessage \/ Report

AdminSpec == AdminInit /\ [][AdminNext]_vars


(***************************************************************************)
(* Properties.                                                             *)
(***************************************************************************)
Returned == op = "retrieve_context"

EntityTypes == <<"character", "location", "anomaly", "mutant", "term", "faction">>

\* Some alias of the index names an entity of the catalog and is a query
\* token, a substring of the lowercased query, or fuzzy-equal to a token.
alias_type_matches(index, catalog, query) ==
    \E i \in 1..Len(index) :
        /\ has_key(catalog, index[i][2])
        /\ \/ InSeq(index[i][1], get_tokens(query))
           \/ IsSubstring(index[i][1], lower(query))
           \/ \E t \in 1..Len(get_tokens(query)) : _fuzzy_match(get_tokens(query)[t], index[i][1])

key_type_matches(catalog, query) ==
    \E i \in 1..Len(catalog) :
        \/ InSeq(catalog[i][1], get_tokens(query))
        \/ IsSubstring(catalog[i][1], lower(query))
        \/ \E t \in 1..Len(get_tokens(query)) : _fuzzy_match(get_tokens(query)[t], catalog[i][1])

\* Type number n of EntityTypes has at least one match for the query.
type_matches(L, n, query) ==
    CASE n = 1 -> alias_type_matches(L.char_aliases_index, L.characters, query)
      [] n = 2 -> alias_type_matches(L.loc_aliases_index, L.locations, query)
      [] n = 3 -> key_type_matches(L.anomalies, query)
      [] n = 4 -> key_type_matches(L.mutants, query)
      [] n = 5 -> key_type_matches(L.terms, query)
      [] n = 6 -> key_type_matches(L.factions, query)

\* C1: the entity type returned for a query is the first of character,
\* location, anomaly, mutant, term, faction that has at least one match, and
\* general when none has.
C1_PriorityCascade ==
    Returned =>
        LET matching == {n \in 1..6 : type_matches(lore, n, input)}
            entity_type == output.metadata.entity_type
        IN  IF matching = {} THEN entity_type = "general"
            ELSE entity_type = EntityTypes[CHOOSE n \in matching : \A m \in matching : n <= m]

\* A query matching both a location and an anomaly was classified location.
C1_Witness ==
    /\ Returned
    /\ type_matches(lore, 2, input)
    /\ type_matches(lore, 3, input)
    /\ output.metadata.entity_type = "location"

\* C2: when a query token is an alias of the character index whose canonical
\* key is in characters, the query is classified character and the name of
\* that character is in the list of found entities.
C2_ExactAliasIsCharacter ==
    Returned =>
        \A i \in 1..Len(lore.char_aliases_index) :
            LET alias_key == lore.char_aliases_index[i][1]
                canonical_key == lore.char_aliases_index[i][2]
            IN  (InSeq(alias_key, get_tokens(input)) /\ has_key(lore.characters, canonical_key))
                => /\ output.metadata.entity_type = "character"
                   /\ InSeq(item(lore.characters, canonical_key).name,
                            output.metadata.found_entities)

\* A query with a character alias token and a location alias token.
C2_Witness ==
    /\ Returned
    /\ \E i \in 1..Len(lore.char_aliases_index) :
           /\ InSeq(lore.char_aliases_index[i][1], get_tokens(input))
           /\ has_key(lore.characters, lore.char_aliases_index[i][2])
    /\ \E i \in 1..Len(lore.loc_aliases_index) :
           InSeq(lore.loc_aliases_index[i][1], get_tokens(input))
    /\ output.metadata.entity_type = "character"

\* C3: the list of found entities never holds the same name twice.
C3_NoDuplicateNames ==
    Returned =>
        \A i, j \in 1..Len(output.metadata.found_entities) :
            output.metadata.found_entities[i] = output.metadata.found_entities[j] => i = j

\* C4: the relevance score of every returned result lies in [0, 100].
C4_RelevanceInRange ==
    Returned =>
        LET r == output.metadata.relevance_score
        IN  r.den > 0 /\ 0 <= r.num /\ r.num <= 100 * r.den

\* Two or more matched characters whose accumulated relevance is cut to 100.
C4_Witness ==
    /\ Returned
    /\ output.metadata.entity_type = "character"
    /\ Len(output.metadata.found_entities) >= 2
    /\ character_loop(lore, output.metadata.found_entities, input, <<>>, 0).relevance > 100
    /\ output.metadata.relevance_score = score(100)

IsBlank(s) == \A i \in 1..Len(s) : isspace(s[i])

EmptyResult ==
    /\ output.metadata.entity_type = "general"
    /\ output.metadata.found_entities = <<>>
    /\ output.context = <<>>
    /\ output.metadata.relevance_score.num = 0

\* C5: for the empty query and for every whitespace-only query the result is
\* entity type general, no found entities, the empty context and relevance 0.
C5_BlankQueryEmptyResult == (Returned /\ IsBlank(input)) => EmptyResult

\* A whitespace-only query answered on a store that has entities.
C5_Witness ==
    /\ Returned
    /\ input # <<>>
    /\ IsBlank(input)
    /\ lore.characters # <<>>
    /\ lore.anomalies # <<>>

\* C6: _fuzzy_match(w, w) is true, and when one of the two words has at most
\* 3 characters _fuzzy_match is true only for equal words.
C6_FuzzyShortWords ==
    op = "_fuzzy_match" =>
        /\ input[1] = input[2] => output
        /\ (Len(input[1]) <= 3 \/ Len(input[2]) <= 3) /\ output => input[1] = input[2]

\* A word of 3 letters compared with a word of 4 letters that begins with it.
C6_Witness ==
    /\ op = "_fuzzy_match"
    /\ Len(input[1]) = 3
    /\ Len(input[2]) = 4
    /\ SubSeq(input[2], 1, 3) = input[1]
    /\ output = FALSE

\* C7: for different words both longer than 3, _fuzzy_match is true exactly
\* when 10 times the number of agreeing positions is at least 7 times the
\* longer length; and the query 'расскажи про стрелка' on the store holding
\* only Strelok is classified character with Strelok in the list.
C7_FuzzyOverlap ==
    /\ (op = "_fuzzy_match" /\ input[1] # input[2] /\ Len(input[1]) > 3 /\ Len(input[2]) > 3)
       => LET a == input[1]
              b == input[2]
              agree == {i \in 1..Min(Len(a), Len(b)) : a[i] = b[i]}
          IN  output <=> (10 * Cardinality(agree) >= 7 * Max(Len(a), Len(b)))
    /\ (Returned /\ lore = LoreStrelok /\ input = StrelokQuery)
       => /\ output.metadata.entity_type = "character"
          /\ InSeq(<<83, 116, 114, 101, 108, 111, 107>>, output.metadata.found_entities)

\* The query 'расскажи про стрелка' answered on the Strelok store, where no
\* alias is a token or a substring of the query.
C7_Witness ==
    /\ Returned
    /\ lore = LoreStrelok
    /\ input = StrelokQuery
    /\ alias_token_tier(get_tokens(input), lore.char_aliases_index, lore.characters, <<>>) = <<>>
    /\ alias_substring_tier(lower(input), lore.char_aliases_index, lore.characters, 1, <<>>) = <<>>
    /\ output.metadata.found_entities = << <<83, 116, 114, 101, 108, 111, 107>> >>

\* C8: tokenizing the tokens of a text joined by single spaces gives the
\* same tokens, and no token is empty, a stop word, or holds a character
\* that is not alphanumeric.
C8_TokensIdempotent ==
    op = "get_tokens" =>
        /\ get_tokens(join_space(output)) = output
        /\ \A i \in 1..Len(output) :
               /\ output[i] # <<>>
               /\ output[i] \notin STOP_WORDS
               /\ \A k \in 1..Len(output[i]) : isalnum(output[i][k])

\* C9: a call of retrieve_context leaves the Lore Store as it was.
C9_StoreUnchanged == [][op' = "retrieve_context" => lore' = lore]_vars

\* A call answered from a store with entities, through a typed assembler.
C9_Witness ==
    /\ Returned
    /\ lore # LoreEmpty
    /\ output.metadata.found_entities # <<>>

\* C10: with every catalog and both alias indices empty, every query gets
\* entity type general, no found entities, the empty context and relevance 0.
C10_EmptyStoreEmptyResult == (Returned /\ lore = LoreEmpty) => EmptyResult

\* A query with tokens answered on the empty store.
C10_Witness ==
    /\ Returned
    /\ lore = LoreEmpty
    /\ get_tokens(input) # <<>>

Done(c) == calls[c].pc = "done"

\* C11: whatever the other callers do in between, a finished call returns
\* the context and metadata that retrieve_context gives for its query on the
\* Lore Store alone, and the query history stays empty: nothing is appended
\* to it, so no call reads anything from it.
C11_CallsIndependent ==
    /\ query_history = <<>>
    /\ \A c \in Callers :
           Done(c) => calls[c].result = retrieve_context(lore, calls[c].query)

\* A call has finished while a call for another query, of another entity
\* type, has parsed its query and not yet assembled its context.
C11_Witness ==
    \E c, d \in Callers :
        /\ Done(c)
        /\ calls[d].pc = "assemble"
        /\ calls[d].query # calls[c].query
        /\ calls[d].entity_type # calls[c].result.metadata.entity_type
        /\ calls[c].result.context # <<>>

C13_MetadataShape ==
    Returned =>
        LET m == output.metadata
            s == output.context
            word_ends == {i \in 1..Len(s) :
                             ~isspace(s[i]) /\ (i = Len(s) \/ isspace(s[i + 1]))}
        IN  /\ m.entity_type \in {"character", "location", "anomaly", "mutant",
                                  "term", "faction", "general"}
            /\ (m.found_entities = <<>>) <=> (m.entity_type = "general")
            /\ m.query = input
            /\ m.token_count = Cardinality(word_ends)

\* A general result whose context has several words on several lines.
C13_Witness ==
    /\ Returned
    /\ output.metadata.entity_type = "general"
    /\ output.metadata.token_count > 3
    /\ InSeq(10, output.context)
    /\ Len(output.context) > output.metadata.token_count

\* The names an alias index gives for the aliases that satisfy a test.
alias_names(index, catalog, Test(_)) ==
    {item(catalog, index[i][2]).name :
        i \in {j \in 1..Len(index) : has_key(catalog, index[j][2]) /\ Test(index[j][1])}}

\* The names of the entities of a catalog whose key satisfies a test.
key_names(catalog, Test(_)) ==
    {catalog[i][2].name : i \in {j \in 1..Len(catalog) : Test(catalog[j][1])}}

IsToken(query, k) == InSeq(k, get_tokens(query))

IsFuzzy(query, k) ==
    \E t \in 1..Len(get_tokens(query)) : _fuzzy_match(get_tokens(query)[t], k)

first_of_three(exact, substring, fuzzy) ==
    IF exact # {} THEN exact ELSE IF substring # {} THEN substring ELSE fuzzy

\* The names the three tiers, the first non-empty one winning, give for
\* type number n of EntityTypes.
three_tier_names(L, n, query) ==
    LET tok(k) == IsToken(query, k)
        sub(k) == IsSubstring(k, lower(query))
        fuz(k) == IsFuzzy(query, k)
        by_alias(index, catalog) ==
            first_of_three(alias_names(index, catalog, tok),
                           alias_names(index, catalog, sub),
                           alias_names(index, catalog, fuz))
        by_key(catalog) ==
            first_of_three(key_names(catalog, tok), key_names(catalog, sub),
                           key_names(catalog, fuz))
    IN  CASE n = 1 -> by_alias(L.char_aliases_index, L.characters)
          [] n = 2 -> by_alias(L.loc_aliases_index, L.locations)
          [] n = 3 -> by_key(L.anomalies)
          [] n = 4 -> by_key(L.mutants)
          [] n = 5 -> by_key(L.terms)
          [] n = 6 -> by_key(L.factions)

\* The names the two tiers substring and fuzzy give for a catalog.
two_tier_names(catalog, query) ==
    LET sub(k) == IsSubstring(k, lower(query))
        fuz(k) == IsFuzzy(query, k)
    IN  first_of_three({}, key_names(catalog, sub), key_names(catalog, fuz))

FoundNames == {output.metadata.found_entities[i] :
                  i \in 1..Len(output.metadata.found_entities)}

\* C14 as claimed: for each of the six entity types the found entities are
\* those of the first non-empty tier of exact token, substring, fuzzy.
C14_ThreeTiersEveryType ==
    Returned =>
        \A n \in 1..6 :
            output.metadata.entity_type = EntityTypes[n]
                => FoundNames = three_tier_names(lore, n, input)

\* C14 as amended: characters, locations, anomalies and mutants have the
\* three tiers; terms and factions have the two tiers substring and fuzzy.
C14_TiersByType ==
    Returned =>
        /\ \A n \in 1..4 :
               output.metadata.entity_type = EntityTypes[n]
                   => FoundNames = three_tier_names(lore, n, input)
        /\ output.metadata.entity_type = "term"
               => FoundNames = two_tier_names(lore.terms, input)
        /\ output.metadata.entity_type = "faction"
               => FoundNames = two_tier_names(lore.factions, input)

\* A query with a token that is a character alias and, inside another word,
\* the alias of a character who is not in the result.
C14_Witness ==
    /\ Returned
    /\ output.metadata.entity_type = "character"
    /\ LET tok(k) == IsToken(input, k)
           sub(k) == IsSubstring(k, lower(input))
           exact == alias_names(lore.char_aliases_index, lore.characters, tok)
           substring == alias_names(lore.char_aliases_index, lore.characters, sub)
       IN  /\ exact # {}
           /\ substring \ exact # {}
           /\ FoundNames = exact

\* The candidates ordered by score descending, candidates of equal score in
\* the order of the scans (characters, locations, anomalies, mutants, each
\* in catalog order).
by_score_keeping_order(found) ==
    LET before(j, i) ==
            \/ found[j].relevance.num > found[i].relevance.num
            \/ found[j].relevance.num = found[i].relevance.num /\ j < i
        rank(i) == 1 + Cardinality({j \in 1..Len(found) : before(j, i)})
    IN  [k \in 1..Len(found) |-> found[CHOOSE i \in 1..Len(found) : rank(i) = k].part]

\* C15: the context of the general fallback is the first 5 candidates, in
\* the order of score descending with ties in catalog order, joined by the
\* '---' delimiter.
C15_TiesKeepCatalogOrder ==
    (Returned /\ output.metadata.entity_type = "general")
        => output.context =
               join(RULE, take(by_score_keeping_order(
                   general_candidates(lore, get_tokens(input))), 5))

\* The entities the general fallback scans, in scan order.
Scanned(L) == L.characters \o L.locations \o L.anomalies \o L.mutants

\* The positions of the query tokens that are in the token set of a text,
\* and of those that are not but are substrings of the lowercased text.
TokenHits(text, tokens) ==
    {i \in 1..Len(tokens) : \E k \in 1..Len(get_tokens(text)) : get_tokens(text)[k] = tokens[i]}

SubstringHits(text, tokens) ==
    {i \in 1..Len(tokens) : IsSubstring(tokens[i], lower(text))} \ TokenHits(text, tokens)

\* C16: in the general fallback an entity qualifies exactly when some query
\* token is in the token set of its description or is a substring of the
\* lowercased description, and its score is
\* min(matchSum / max(number of tokens, 1) * 20, 100), matchSum counting 2
\* for a token of the token set and 1 for a token that is only a substring.
C16_QualifyAndScore ==
    (Returned /\ output.metadata.entity_type = "general") =>
        LET tokens == get_tokens(input)
            n == IF Len(tokens) > 1 THEN Len(tokens) ELSE 1
        IN  \A e \in 1..Len(Scanned(lore)) :
                LET text == Scanned(lore)[e][2].description
                    matchSum == 2 * Cardinality(TokenHits(text, tokens))
                                + Cardinality(SubstringHits(text, tokens))
                    r == _calculate_relevance(text, tokens)
                IN  /\ _contains_query_words(text, tokens)
                           <=> (TokenHits(text, tokens) \cup SubstringHits(text, tokens) # {})
                    /\ r.den > 0
                    /\ IF 20 * matchSum <= 100 * n
                       THEN r.num * n = 20 * matchSum * r.den
                       ELSE r.num = 100 * r.den

\* A general result for a query of which one token is a token of a scanned
\* description and another is only a substring of it, on a store where
\* another description does not qualify.
C16_Witness ==
    /\ Returned
    /\ output.metadata.entity_type = "general"
    /\ \E e, f \in 1..Len(Scanned(lore)) :
           LET tokens == get_tokens(input)
               text == Scanned(lore)[e][2].description
           IN  /\ TokenHits(text, tokens) # {}
               /\ SubstringHits(text, tokens) # {}
               /\ ~_contains_query_words(Scanned(lore)[f][2].description, tokens)

\* The scanned entities that qualify for a list of query tokens.
Qualifying(L, tokens) ==
    {e \in 1..Len(Scanned(L)) :
        TokenHits(Scanned(L)[e][2].description, tokens)
        \cup SubstringHits(Scanned(L)[e][2].description, tokens) # {}}

\* The sum of the match sums of a set of scanned entities.
RECURSIVE MatchSumOver(_, _, _)
MatchSumOver(L, tokens, E) ==
    IF E = {} THEN 0
    ELSE LET e == CHOOSE x \in E : TRUE
             text == Scanned(L)[e][2].description
         IN  2 * Cardinality(TokenHits(text, tokens))
             + Cardinality(SubstringHits(text, tokens))
             + MatchSumOver(L, tokens, E \ {e})

\* C17: the relevance of a general result is the mean of the scores
\* 20 * matchSum / max(number of tokens, 1) of all qualifying entities, also
\* of those that are not among the 5 shown; with no qualifying entity the
\* relevance is 0 and the context is empty.
C17_MeanOverAllCandidates ==
    (Returned /\ output.metadata.entity_type = "general") =>
        LET tokens == get_tokens(input)
            n == IF Len(tokens) > 1 THEN Len(tokens) ELSE 1
            all == Qualifying(lore, tokens)
            r == output.metadata.relevance_score
        IN  IF all = {}
            THEN r.num = 0 /\ output.context = <<>>
            ELSE /\ r.den > 0
                 /\ r.num * n * Cardinality(all)
                        = 20 * MatchSumOver(lore, tokens, all) * r.den

\* A general result with more than 5 qualifying entities whose scores are
\* not all the same.
C17_Witness ==
    /\ Returned
    /\ output.metadata.entity_type = "general"
    /\ LET found == general_candidates(lore, get_tokens(input))
       IN  /\ Len(found) > 5
           /\ \E i, j \in 1..Len(found) : found[i].relevance # found[j].relevance

HasTriggerWord(query) ==
    \E w \in 1..Len(TRIGGER_WORDS) : IsSubstring(TRIGGER_WORDS[w], lower(query))

\* 50 for every matched character, 10 more when the query holds a trigger
\* word and the character has related-character names, 5 more when its
\* location resolves.
RECURSIVE claimed_character_relevance(_, _, _)
claimed_character_relevance(L, names, query) ==
    IF names = <<>> THEN 0
    ELSE LET k == find_character(L, Head(names))
             character == item(L.characters, k[1])
         IN  (IF k = <<>> THEN 0
              ELSE 50
                   + (IF HasTriggerWord(query) /\ character.related_characters # <<>>
                      THEN 10 ELSE 0)
                   + (IF character.location # <<>>
                         /\ find_location(L, character.location) # <<>>
                      THEN 5 ELSE 0))
             + claimed_character_relevance(L, Tail(names), query)

\* C18: the relevance of a character result is the sum, cut at 100, of 50 per
\* matched character, 5 per resolvable location, and 10 exactly for the
\* characters that have related-character names when the query holds a
\* relational trigger word.
C18_RelationalBonus ==
    (Returned /\ output.metadata.entity_type = "character") =>
        LET claimed == claimed_character_relevance(lore, output.metadata.found_entities, input)
            r == output.metadata.relevance_score
        IN  r.num = (IF claimed < 100 THEN claimed ELSE 100) * r.den

\* The positions at which a line of a text begins, and the number of lines
\* that begin with a prefix, or are equal to a text.
LineStarts(s) == {i \in 1..Len(s) : i = 1 \/ s[i - 1] = 10}

LinesBeginning(s, prefix) ==
    Cardinality({i \in LineStarts(s) :
        /\ i + Len(prefix) - 1 <= Len(s)
        /\ SubSeq(s, i, i + Len(prefix) - 1) = prefix})

LinesEqual(s, line) ==
    Cardinality({i \in LineStarts(s) :
        /\ i + Len(line) - 1 <= Len(s)
        /\ SubSeq(s, i, i + Len(line) - 1) = line
        /\ i + Len(line) - 1 = Len(s) \/ s[i + Len(line)] = 10})

\* A result for exactly one matched character, which resolves.
OneCharacter ==
    /\ Returned
    /\ output.metadata.entity_type = "character"
    /\ Len(output.metadata.found_entities) = 1
    /\ find_character(lore, output.metadata.found_entities[1]) # <<>>

\* The key of that character, and the characters other than it whose
\* description contains its name, case-insensitively.
MatchedKey == find_character(lore, output.metadata.found_entities[1])[1]

OthersMentioning ==
    LET name == item(lore.characters, MatchedKey).name
    IN  {j \in 1..Len(lore.characters) :
            /\ lore.characters[j][1] # MatchedKey
            /\ IsSubstring(lower(name), lower(lore.characters[j][2].description))}

\* C19: mention notes are in the context of a matched character only if
\* between 1 and 3 other characters mention it; with more than 3 there is
\* none; and there are never more than 2.
C19_MentionThreshold ==
    OneCharacter =>
        LET notes == LinesBeginning(output.context, MENTIONED_LABEL)
            mentioning == Cardinality(OthersMentioning)
        IN  /\ notes > 0 => (1 <= mentioning /\ mentioning <= 3)
            /\ mentioning > 3 => notes = 0
            /\ notes <= 2

\* C20: the context of a matched character has no more notes naming the
\* character itself than there are other characters of that name mentioning
\* it: the character is not reported as a mention of itself.
C20_NoSelfMention ==
    OneCharacter =>
        LET name == item(lore.characters, MatchedKey).name
            namesakes == {j \in OthersMentioning : lore.characters[j][2].name = name}
        IN  LinesEqual(output.context, MENTIONED_LABEL \o name) <= Cardinality(namesakes)

\* The characters whose description contains the name of a location,
\* case-insensitively.
MentioningLocation(L, location) ==
    {j \in 1..Len(L.characters) :
        IsSubstring(lower(location.name), lower(L.characters[j][2].description))}

\* 40 for every matched location that resolves, 3 more when it has related
\* locations, 5 more when a character mentions it.
RECURSIVE claimed_location_relevance(_, _)
claimed_location_relevance(L, names) ==
    IF names = <<>> THEN 0
    ELSE LET k == find_location(L, Head(names))
             location == item(L.locations, k[1])
         IN  (IF k = <<>> THEN 0
              ELSE 40
                   + (IF location.related_locations # {} THEN 3 ELSE 0)
                   + (IF MentioningLocation(L, location) # {} THEN 5 ELSE 0))
             + claimed_location_relevance(L, Tail(names))

\* The number of characters listed: for every matched location that
\* resolves, those that mention it, but no more than 5.
RECURSIVE claimed_listed_characters(_, _)
claimed_listed_characters(L, names) ==
    IF names = <<>> THEN 0
    ELSE LET k == find_location(L, Head(names))
         IN  (IF k = <<>> THEN 0
              ELSE Min(Cardinality(MentioningLocation(L, item(L.locations, k[1]))), 5))
             + claimed_listed_characters(L, Tail(names))

\* The line of a text that begins at position i.
LineAt(s, i) ==
    LET ends == {j \in i..Len(s) : s[j] = 10}
    IN  SubSeq(s, i, IF ends = {} THEN Len(s)
                     ELSE (CHOOSE j \in ends : \A k \in ends : j <= k) - 1)

\* '- name: ' and the first 100 characters of the description, then '...'
ListedLine(character) ==
    <<45, 32>> \o character.name \o <<58, 32>>
        \o SubSeq(character.description, 1, Min(100, Len(character.description)))
        \o <<46, 46, 46>>

\* C21: the relevance of a location result is the sum, cut at 100, of 40 per
\* matched location that resolves, 3 more exactly for those with related
\* locations and 5 more exactly for those whose name is in the description
\* of some character; at most 5 characters are listed per location, and
\* every listed line holds a description cut to its first 100 characters.
C21_LocationBonuses ==
    (Returned /\ output.metadata.entity_type = "location") =>
        LET names == output.metadata.found_entities
            claimed == claimed_location_relevance(lore, names)
            r == output.metadata.relevance_score
            listed == {i \in LineStarts(output.context) :
                          /\ i < Len(output.context)
                          /\ SubSeq(output.context, i, i + 1) = <<45, 32>>}
        IN  /\ r.num = Min(claimed, 100) * r.den
            /\ Cardinality(listed) = claimed_listed_characters(lore, names)
            /\ \A i \in listed :
                   \E j \in 1..Len(lore.characters) :
                       LineAt(output.context, i) = ListedLine(lore.characters[j][2])

\* Two locations are matched: one mentioned by more than 5 characters and
\* without related locations, one with related locations and mentioned in a
\* description longer than 100 characters; the sum is below the cap.
C21_Witness ==
    /\ Returned
    /\ output.metadata.entity_type = "location"
    /\ claimed_location_relevance(lore, output.metadata.found_entities) < 100
    /\ \E n \in 1..Len(output.metadata.found_entities) :
           LET k == find_location(lore, output.metadata.found_entities[n])
           IN  /\ k # <<>>
               /\ item(lore.locations, k[1]).related_locations = {}
               /\ Cardinality(MentioningLocation(lore, item(lore.locations, k[1]))) > 5
    /\ \E n \in 1..Len(output.metadata.found_entities) :
           LET k == find_location(lore, output.metadata.found_entities[n])
           IN  /\ k # <<>>
               /\ item(lore.locations, k[1]).related_locations # {}
               /\ \E j \in MentioningLocation(lore, item(lore.locations, k[1])) :
                      Len(lore.characters[j][2].description) > 100

\* The base score of the types whose assembler gives no bonus.
base_score(entity_type) == IF entity_type = "term" THEN 30 ELSE 35

\* C22: the relevance of an anomaly, mutant, term or faction result is
\* min(n * base, 100) for the n names the classifier produced, with base 30
\* for a term and 35 for the other three types: every name is resolved again
\* by the assembler and contributes its base score.
C22_EveryNameScores ==
    (Returned /\ output.metadata.entity_type \in {"anomaly", "mutant", "term", "faction"}) =>
        LET n == Len(output.metadata.found_entities)
            r == output.metadata.relevance_score
        IN  r.num = Min(n * base_score(output.metadata.entity_type), 100) * r.den

\* The models requested so far, in the order of the requests.
RequestedModels == [i \in 1..Len(ai.requests) |-> ai.requests[i].model]

\* Request i raised RateLimitError.
RateLimited(i) == outcome_name(ai.outcomes[i][2]) = "RateLimitError"

\* Request i is the second request to its model: the one made by
\* get_ai_response_without_lore.
IsRetry(i) == i > 1 /\ RequestedModels[i] = RequestedModels[i - 1]

\* The requests go through MODELS_TO_TRY in list order (only the last one
\* may be a retry); a request to another model is made only after the model
\* before it raised RateLimitError; no request follows a response.
InListOrder ==
    /\ Len(ai.outcomes) = Len(ai.requests)
    /\ \A i \in 1..Len(ai.requests) :
           \/ i <= Len(MODELS_TO_TRY) /\ RequestedModels[i] = MODELS_TO_TRY[i]
           \/ i = Len(ai.requests) /\ IsRetry(i)
    /\ \A i \in 2..Len(ai.requests) :
           /\ ai.outcomes[i - 1][1] = RequestedModels[i - 1]
           /\ ~IsRetry(i) => RateLimited(i - 1)
           /\ outcome_name(ai.outcomes[i - 1][2]) # "response"

\* C23: the requests of one call of get_ai_response go through
\* MODELS_TO_TRY in list order, a request to another model is made only
\* after the model before it raised RateLimitError, no request follows a
\* response, and the result is 'limit_exceeded' exactly when every model of
\* the list raised RateLimitError.
C23_ModelRotation ==
    /\ InListOrder
    /\ ai.pc = "done" =>
           (ai.result.model = "limit_exceeded"
               <=> \A m \in 1..Len(MODELS_TO_TRY) :
                       \E i \in 1..Len(ai.outcomes) :
                           ai.outcomes[i][1] = MODELS_TO_TRY[m] /\ RateLimited(i))

\* C23, amended: as above, but the result is 'limit_exceeded' exactly when
\* the request of the loop to every model of the list, the one with the
\* lore, raised RateLimitError; a RateLimitError raised by the retry without
\* the lore gives the 'error' result.
C23_RotationInLoop ==
    /\ InListOrder
    /\ ai.pc = "done" =>
           (ai.result.model = "limit_exceeded"
               <=> \A m \in 1..Len(MODELS_TO_TRY) :
                       \E i \in 1..Len(ai.outcomes) :
                           /\ ~IsRetry(i)
                           /\ ai.outcomes[i][1] = MODELS_TO_TRY[m]
                           /\ RateLimited(i))

\* Every model of the list was requested and raised RateLimitError.
C23_Witness ==
    /\ ai.pc = "done"
    /\ ai.result.model = "limit_exceeded"
    /\ RequestedModels = MODELS_TO_TRY


\* The exception is the HTTP 413 error 'Request Entity Too Large'.
IsTooLarge(outcome) ==
    /\ outcome.kind = "exception"
    /\ IsSubstring(ERROR_CODE_413, outcome.str)
    /\ IsSubstring(TOO_LARGE, outcome.str)

\* The result of a call that ended with this outcome of its last request:
\* the answer of the model, or 'error'.
IsReturned(model, outcome) ==
    IF outcome.kind = "response" /\ outcome.content # <<>> /\ outcome.usage # <<>>
    THEN /\ ai.result.model = model
         /\ ai.result.message = _strip_think_tags(outcome.content[1], model)
    ELSE ai.result = error_result

\* C24: a request of the loop that raised something other than
\* RateLimitError is the last request of the call, which ends with the
\* 'error' result; unless it raised the 413 error 'Request Entity Too
\* Large': then exactly one more request follows, to the same model, with
\* the system prompt without the lore, and its outcome is the result, the
\* answer or 'error'.  A call that is over has a result, whatever was raised.
C24_ErrorHandling ==
    LET n == Len(ai.outcomes)
    IN  /\ \A i \in 1..n :
               LET outcome == ai.outcomes[i][2]
               IN  (outcome.kind = "exception" /\ ~RateLimited(i) /\ ~IsRetry(i)) =>
                       IF IsTooLarge(outcome)
                       THEN /\ n <= i + 1
                            /\ ai.pc = (IF n = i THEN "without_lore" ELSE "done")
                            /\ n = i + 1 =>
                                   /\ ai.requests[n] = completion_request(RequestedModels[i],
                                                           SYSTEM_PROMPT, ai.message_history)
                                   /\ IsReturned(RequestedModels[i], ai.outcomes[n][2])
                       ELSE /\ n = i
                            /\ ai.pc = "done"
                            /\ ai.result = error_result
        /\ ai.pc = "done" =>
               /\ n >= 1
               /\ \/ ai.result \in {error_result, limit_exceeded_result}
                  \/ IsReturned(RequestedModels[n], ai.outcomes[n][2])

\* A call with lore in its prompt got the 413 error and an answer to the
\* retry without the lore.
C24_Witness ==
    /\ ai.pc = "done"
    /\ ai.relevant_lore_chunk # <<>>
    /\ Len(ai.outcomes) >= 2
    /\ IsRetry(Len(ai.outcomes))
    /\ IsTooLarge(ai.outcomes[Len(ai.outcomes) - 1][2])
    /\ ai.result.model = RequestedModels[Len(ai.requests)]
    /\ ai.requests[Len(ai.requests)].messages[1].content = SYSTEM_PROMPT


\* The names of the models, as opposed to 'error' and 'limit_exceeded'
RealModels == {MODELS_TO_TRY[m] : m \in 1..Len(MODELS_TO_TRY)}

ExpectedRefusal ==
    IF chat.maintenance THEN <<MAINTENANCE_REPLY>>
    ELSE IF ~chat.user_data.age_verified THEN <<AGE_REPLY>>
    ELSE IF is_spam(chat.message_text) THEN <<SPAM_REPLY>>
    ELSE IF Len(strip(chat.message_text)) <= 2 THEN <<SHORT_REPLY>>
    ELSE IF chat.flagged THEN <<FILTER_REPLY>>
    ELSE <<>>

\* C26: get_ai_response is awaited, and a request is made, only for a
\* message that passes every check; a message that fails one gets exactly one
\* reply, the refusal of the first check it fails, no AI request is made and
\* the stored chat_history is what it was before the call.
C26_ChecksBeforeAi ==
    /\ (chat.handled > 0 /\ ExpectedRefusal # <<>>) =>
           /\ chat.pc = "idle"
           /\ chat.replies = ExpectedRefusal
           /\ chat.passed = <<>>
           /\ ai = NoAiCall
           /\ chat.user_data.chat_history = chat.history_before
    /\ (chat.passed # <<>> \/ ai # NoAiCall) =>
           /\ ~chat.maintenance
           /\ chat.user_data.age_verified
           /\ ~is_spam(chat.message_text)
           /\ Len(strip(chat.message_text)) > 2
           /\ ~chat.flagged

\* A long message with enough letters but few distinct characters is
\* refused as spam, after an exchange that left a history.
C26_Witness ==
    /\ chat.replies = <<SPAM_REPLY>>
    /\ Len(chat.message_text) > 200
    /\ chat.flagged
    /\ chat.history_before # <<>>
    /\ chat.user_data.chat_history = chat.history_before

\* C27: the history given to get_ai_response, and sent in every request
\* after the system prompt, has at most 6 entries, the last of them the
\* message of the user that is being handled; the stored chat_history has
\* at most 7 entries.
C27_HistoryBounds ==
    /\ Len(chat.user_data.chat_history) <= 7
    /\ chat.passed # <<>> =>
           /\ Len(chat.passed[1]) <= 6
           /\ chat.passed[1][Len(chat.passed[1])] =
                  [role |-> "user", content |-> chat.message_text]
    /\ ai # NoAiCall =>
           /\ ai.message_history = chat.passed[1]
           /\ \A i \in 1..Len(ai.requests) :
                  SubSeq(ai.requests[i].messages, 2, Len(ai.requests[i].messages))
                      = chat.passed[1]

\* Six entries were stored when the message came: the oldest one was cut,
\* six were passed, and the answer made seven.
C27_Witness ==
    /\ Len(chat.history_before) = 6
    /\ chat.passed # <<>>
    /\ Len(chat.passed[1]) = 6
    /\ chat.passed[1][1] = chat.history_before[2]
    /\ Len(chat.user_data.chat_history) = 7

\* The call got an answer of a model, not empty, and sent it.
Succeeded ==
    /\ chat.response # <<>>
    /\ chat.response[1].model \in RealModels
    /\ chat.response[1].message # <<>>
    /\ chat.raised = ""

\* C28: from line 92 on the stored chat_history is the last six entries of
\* the earlier history with the message of the user, and when the call is
\* over it has one more entry, of the assistant with the text that was sent,
\* exactly when get_ai_response named a model, the message was not empty and
\* nothing was raised.
C28_AssistantEntry ==
    LET base == last_six(Append(chat.history_before,
                                [role |-> "user", content |-> chat.message_text]))
    IN  /\ chat.pc \in {"typing", "ai"} => chat.user_data.chat_history = base
        /\ (chat.pc = "idle" /\ (chat.passed # <<>> \/ chat.raised # "")) =>
               IF Succeeded
               THEN chat.user_data.chat_history =
                        Append(base, [role |-> "assistant",
                                      content |-> chat.replies[Len(chat.replies)]])
               ELSE chat.user_data.chat_history = base

\* get_ai_response returned 'limit_exceeded': its message was sent and the
\* history ends with the message of the user.
C28_Witness ==
    /\ chat.pc = "idle"
    /\ chat.response # <<>>
    /\ chat.response[1].model = "limit_exceeded"
    /\ chat.replies = <<LIMIT_MESSAGE>>
    /\ chat.history_before # <<>>
    /\ chat.user_data.chat_history[Len(chat.user_data.chat_history)] =
           [role |-> "user", content |-> chat.message_text]


\* The records of the list that have a tg_id, in list order
RECURSIVE with_tg_id(_)
with_tg_id(users) ==
    IF users = <<>> THEN <<>>
    ELSE IF Head(users).tg_id = <<>> THEN with_tg_id(Tail(users))
    ELSE <<Head(users).tg_id[1]>> \o with_tg_id(Tail(users))

\* The sends of the broadcast that were made successfully
SuccessfulSends == {i \in 1..Len(admin.sends) : admin.sends[i].outcome = "sent"}

\* C29: while /globalmessage of the administrator goes through a list of
\* users, the sends made are one for each record with a tg_id among those
\* passed, in list order, each with the text of the command, whatever the
\* earlier sends came to; and the report gives as success_count the sends
\* that succeeded and as fail_count the others, which together are the
\* records with a tg_id.
C29_Broadcast ==
    /\ admin.pc = "sending" =>
           /\ [i \in 1..Len(admin.sends) |-> admin.sends[i].chat_id]
                  = with_tg_id(SubSeq(admin.users, 1, admin.index - 1))
           /\ \A i \in 1..Len(admin.sends) : admin.sends[i].text = <<104, 105>>
    /\ (admin.pc = "idle" /\ admin.users # <<>>) =>
           /\ [i \in 1..Len(admin.sends) |-> admin.sends[i].chat_id]
                  = with_tg_id(admin.users)
           /\ admin.replies[Len(admin.replies)] =
                  [kind |-> "report",
                   success_count |-> Cardinality(SuccessfulSends),
                   fail_count |-> Len(admin.sends) - Cardinality(SuccessfulSends)]
           /\ admin.replies[Len(admin.replies)].success_count
                  + admin.replies[Len(admin.replies)].fail_count
                  = Len(with_tg_id(admin.users))

\* A broadcast to a record without tg_id and two users, where the send to
\* the first user raised a TelegramError and the second one was reached.
C29_Witness ==
    /\ admin.pc = "idle"
    /\ admin.users = <<[tg_id |-> <<11>>], [tg_id |-> <<>>], [tg_id |-> <<12>>]>>
    /\ Len(admin.sends) = 2
    /\ admin.sends[1].outcome = "TelegramError"
    /\ admin.sends[2].outcome = "sent"
    /\ admin.replies[Len(admin.replies)] =
           [kind |-> "report", success_count |-> 1, fail_count |-> 1]

\* C30: an update of a user who is not ADMIN_ID gets no reply but the
\* refusal 'only_admin', and no message is sent for it.
C30_AdminOnly ==
    (admin.handler # "" /\ admin.user_id # ADMIN_ID) =>
        /\ admin.sends = <<>>
        /\ admin.users = <<>>
        /\ \A i \in 1..Len(admin.replies) : admin.replies[i].kind = "only_admin"

====
